---- MODULE Spec2Model ----
(***************************************************************************)
(* Storage abstraction (local directory / S3 bucket) and retention sweeper *)
(* of the TTS application: src/storage.py and cleanup_old_files.           *)
(*                                                                         *)
(* File names and object keys are sequences of one-character strings, so   *)
(* that startswith / endswith / str.replace are computed as Python does.   *)
(* The store is the directory (file name -> file) of LocalStorage or the   *)
(* bucket (object key -> object) of S3Storage.                             *)
(***************************************************************************)
EXTENDS Integers, Sequences, FiniteSets, TLC

VARIABLES backend, prefix, initialized, store, now, ticks, last, pre,
          spc, current_time, files, idx,
          io, cycle, log, boot, writer, threads,
          TRANSCRIPT_CACHE, sets, recency

vars == <<backend, prefix, initialized, store, now, ticks, last, pre,
          spc, current_time, files, idx,
          io, cycle, log, boot, writer, threads,
          TRANSCRIPT_CACHE, sets, recency>>

sweepVars == <<spc, current_time, files, idx>>
configVars == <<backend, prefix, initialized>>
\* io:     what the last storage call did below the interface (injected
\*         fault, backend calls issued, exception let out to the caller)
\* cycle:  sweep cycles begun; log: what the current cycle has attempted
\* boot:   process bootstrap (modules loaded, sweeper threads running)
\* writer: a save_file call in progress in another thread
\* threads: the calls in progress in the request-handler threads
\* TRANSCRIPT_CACHE: the SimpleLRUCache of the summarizer (capacity, cache
\*         as the OrderedDict's items, oldest first, lock as its holder);
\*         sets: the (key, value) pairs of the set calls made so far;
\*         recency: the keys in the order of their latest get-hit or set
cacheVars == <<TRANSCRIPT_CACHE, sets, recency>>
extVars == <<io, cycle, log, boot, writer, threads, cacheVars>>

(***************************************************************************)
(* Bounds of the model.                                                    *)
(***************************************************************************)
MaxTicks == 2
\* how many times in succession the long-retention phase is run
MaxPasses == 2
\* sweep cycles run on a backend that may fail
MaxCycles == 2

(***************************************************************************)
(* Program constants.                                                      *)
(***************************************************************************)
FILE_MAX_AGE_SECONDS == 3600
TEMP_MAX_AGE_SECONDS == 300
SWEEP_INTERVAL == 300

(***************************************************************************)
(* Strings.                                                                *)
(***************************************************************************)
EXT_MP3 == <<".", "m", "p", "3">>
EXT_WAV == <<".", "w", "a", "v">>
TEMP_PREFIX == <<"t", "e", "m", "p", "_">>
DEFAULT_PREFIX == <<"a", "u", "d", "i", "o", "/">>
ALT_PREFIX == <<"a", "u", "d", "i", "o">>
Prefixes == {DEFAULT_PREFIX, ALT_PREFIX}

\* "a.mp3", "temp_audio.wav", "temp_c.txt"
N_a == <<"a">> \o EXT_MP3
N_temp_audio == TEMP_PREFIX \o <<"a", "u", "d", "i", "o">> \o EXT_WAV
N_temp_c == TEMP_PREFIX \o <<"c", ".", "t", "x", "t">>
Names == {N_a, N_temp_audio, N_temp_c}

\* None / the empty string (both falsy in `if exclude_prefix and ...`)
NoPrefix == << >>
ExcludePrefixes == {NoPrefix, TEMP_PREFIX, <<"a">>}

Contents == {<<1>>, <<2, 3>>}
\* None: not a byte string (a byte is 0..255)
None == << -1 >>

\* str.startswith
StartsWith(s, p) ==
    /\ Len(p) <= Len(s)
    /\ SubSeq(s, 1, Len(p)) = p

\* str.endswith
EndsWith(s, p) ==
    /\ Len(p) <= Len(s)
    /\ SubSeq(s, Len(s) - Len(p) + 1, Len(s)) = p

\* filename.endswith(('.mp3', '.wav'))
IsAudio(s) == EndsWith(s, EXT_MP3) \/ EndsWith(s, EXT_WAV)

\* str.replace(p, ''): every non-overlapping occurrence, left to right
RECURSIVE RemoveAll(_, _)
RemoveAll(s, p) ==
    IF p = << >> \/ Len(s) < Len(p) THEN s
    ELSE IF SubSeq(s, 1, Len(p)) = p
         THEN RemoveAll(SubSeq(s, Len(p) + 1, Len(s)), p)
         ELSE <<Head(s)>> \o RemoveAll(Tail(s), p)

(***************************************************************************)
(* The store: a partial function path -> [content, created].               *)
(***************************************************************************)
Put(st, path, content, t) ==
    [p \in (DOMAIN st) \cup {path} |->
        IF p = path THEN [content |-> content, created |-> t] ELSE st[p]]

Remove(st, path) == [p \in (DOMAIN st) \ {path} |-> st[p]]

EmptyStore == [p \in {} |-> [content |-> << >>, created |-> 0]]

\* all orders in which a directory listing / bucket listing may enumerate
Orders(S) ==
    {o \in [1..Cardinality(S) -> S] : \A i, j \in 1..Cardinality(S) : i # j => o[i] # o[j]}

\* list.sort(key=created, reverse=True): stable, descending
RECURSIVE InsertDesc(_, _)
InsertDesc(sorted, e) ==
    IF sorted = << >> THEN <<e>>
    ELSE IF Head(sorted).created >= e.created
         THEN <<Head(sorted)>> \o InsertDesc(Tail(sorted), e)
         ELSE <<e>> \o sorted

\* the sort left out: entries stay in enumeration order
Mut_SortDesc_unsorted(seq) == seq

RECURSIVE SortDesc(_)
SortDesc(seq) ==
    IF seq = << >> THEN << >>
    ELSE InsertDesc(SortDesc(SubSeq(seq, 1, Len(seq) - 1)), seq[Len(seq)])

(***************************************************************************)
(* LocalStorage                                                            *)
(***************************************************************************)
\* an exclusive create that leaves an existing file as it is
Mut_LocalStorage_save_file_keep(st, filename, content, t) ==
    IF filename \in DOMAIN st
    THEN [st |-> st, ret |-> TRUE]
    ELSE [st |-> Put(st, filename, content, t), ret |-> TRUE]

LocalStorage_save_file(st, filename, content, t) ==
    [st |-> Put(st, filename, content, t), ret |-> TRUE]

LocalStorage_get_file(st, filename) ==
    IF filename \in DOMAIN st THEN st[filename].content ELSE None

\* the os.remove left out
Mut_LocalStorage_delete_file_keep(st, filename) ==
    IF filename \in DOMAIN st
    THEN [st |-> st, ret |-> TRUE]
    ELSE [st |-> st, ret |-> FALSE]

LocalStorage_delete_file(st, filename) ==
    IF filename \in DOMAIN st
    THEN [st |-> Remove(st, filename), ret |-> TRUE]
    ELSE [st |-> st, ret |-> FALSE]

\* a rename that refuses to replace an existing destination
Mut_LocalStorage_rename_file_noclobber(st, old_name, new_name, t) ==
    IF old_name \in DOMAIN st /\ (new_name \notin DOMAIN st \/ old_name = new_name)
    THEN IF old_name = new_name
         THEN [st |-> st, ret |-> TRUE]
         ELSE [st |-> Put(Remove(st, old_name), new_name, st[old_name].content, t),
               ret |-> TRUE]
    ELSE [st |-> st, ret |-> FALSE]

\* the destination cleared before the source is looked at
Mut_LocalStorage_rename_file_clear(st, old_name, new_name, t) ==
    IF old_name \in DOMAIN st
    THEN [st |-> Put(Remove(st, old_name), new_name, st[old_name].content, t),
          ret |-> TRUE]
    ELSE [st |-> Remove(st, new_name), ret |-> FALSE]

\* os.rename: the entry moves, replacing new_name; the inode change time
\* (what os.path.getctime reads) becomes the time of the rename
LocalStorage_rename_file(st, old_name, new_name, t) ==
    IF old_name \in DOMAIN st
    THEN IF old_name = new_name
         THEN [st |-> st, ret |-> TRUE]
         ELSE [st |-> Put(Remove(st, old_name), new_name, st[old_name].content, t),
               ret |-> TRUE]
    ELSE [st |-> st, ret |-> FALSE]

LocalStorage_file_exists(st, filename) == filename \in DOMAIN st

RECURSIVE LocalStorage_list_loop(_, _, _)
LocalStorage_list_loop(st, exclude_prefix, order) ==
    IF order = << >> THEN << >>
    ELSE LET filename == Head(order)
             rest == LocalStorage_list_loop(st, exclude_prefix, Tail(order))
         IN  IF exclude_prefix # << >> /\ StartsWith(filename, exclude_prefix)
             THEN rest
             ELSE IF IsAudio(filename)
                  THEN <<[filename |-> filename,
                          size |-> Len(st[filename].content),
                          created |-> st[filename].created]>> \o rest
                  ELSE rest

LocalStorage_list_files(st, exclude_prefix, order) ==
    SortDesc(LocalStorage_list_loop(st, exclude_prefix, order))

LocalStorage_cleanup_temp_files(st, max_age_seconds, t) ==
    [p \in {q \in DOMAIN st :
              ~(StartsWith(q, TEMP_PREFIX) /\ t - st[q].created > max_age_seconds)}
        |-> st[p]]

(***************************************************************************)
(* S3Storage.  The bucket maps object keys to objects; `created` is the    *)
(* object's LastModified.  get_object / head_object / copy_object raise on *)
(* a missing key, delete_object does not, and copy_object rejects a copy   *)
(* of an object onto itself.                                               *)
(***************************************************************************)
S3Storage_get_key(pfx, filename) == pfx \o filename

S3Storage_save_file(st, pfx, init, filename, content, t) ==
    IF ~init THEN [st |-> st, ret |-> FALSE]
    ELSE [st |-> Put(st, S3Storage_get_key(pfx, filename), content, t), ret |-> TRUE]

S3Storage_get_file(st, pfx, init, filename) ==
    IF ~init THEN None
    ELSE LET key == S3Storage_get_key(pfx, filename)
         IN  IF key \in DOMAIN st THEN st[key].content ELSE None

S3Storage_delete_file(st, pfx, init, filename) ==
    IF ~init THEN [st |-> st, ret |-> FALSE]
    ELSE [st |-> Remove(st, S3Storage_get_key(pfx, filename)), ret |-> TRUE]

\* the delete_object of the old key left out
Mut_S3Storage_rename_file_copy(st, pfx, init, old_name, new_name, t) ==
    IF ~init THEN [st |-> st, ret |-> FALSE]
    ELSE LET old_key == pfx \o old_name
             new_key == pfx \o new_name
         IN  IF old_key \notin DOMAIN st \/ old_key = new_key
             THEN [st |-> st, ret |-> FALSE]
             ELSE [st |-> Put(st, new_key, st[old_key].content, t), ret |-> TRUE]

S3Storage_rename_file(st, pfx, init, old_name, new_name, t) ==
    IF ~init THEN [st |-> st, ret |-> FALSE]
    ELSE LET old_key == S3Storage_get_key(pfx, old_name)
             new_key == S3Storage_get_key(pfx, new_name)
         IN  IF old_key \notin DOMAIN st \/ old_key = new_key
             THEN [st |-> st, ret |-> FALSE]
             ELSE [st |-> Remove(Put(st, new_key, st[old_key].content, t), old_key),
                   ret |-> TRUE]

S3Storage_file_exists(st, pfx, init, filename) ==
    IF ~init THEN FALSE
    ELSE S3Storage_get_key(pfx, filename) \in DOMAIN st

RECURSIVE S3Storage_list_loop(_, _, _, _)
S3Storage_list_loop(st, pfx, exclude_prefix, order) ==
    IF order = << >> THEN << >>
    ELSE LET key == Head(order)
             filename == RemoveAll(key, pfx)
             rest == S3Storage_list_loop(st, pfx, exclude_prefix, Tail(order))
         IN  IF ~StartsWith(key, pfx) THEN rest
             ELSE IF exclude_prefix # << >> /\ StartsWith(filename, exclude_prefix)
             THEN rest
             ELSE IF IsAudio(filename)
                  THEN <<[filename |-> filename,
                          size |-> Len(st[key].content),
                          created |-> st[key].created]>> \o rest
                  ELSE rest

S3Storage_list_files(st, pfx, init, exclude_prefix, order) ==
    IF ~init THEN << >>
    ELSE SortDesc(S3Storage_list_loop(st, pfx, exclude_prefix, order))

RECURSIVE S3Storage_cleanup_loop(_, _, _, _, _, _)
S3Storage_cleanup_loop(st, pfx, init, listed, max_age_seconds, t) ==
    IF listed = << >> THEN st
    ELSE LET file == Head(listed)
             st2 == IF StartsWith(file.filename, TEMP_PREFIX)
                       /\ t - file.created > max_age_seconds
                    THEN S3Storage_delete_file(st, pfx, init, file.filename).st
                    ELSE st
         IN  S3Storage_cleanup_loop(st2, pfx, init, Tail(listed), max_age_seconds, t)

S3Storage_cleanup_temp_files(st, pfx, init, max_age_seconds, t, order) ==
    IF ~init THEN st
    ELSE S3Storage_cleanup_loop(st, pfx, init,
             S3Storage_list_files(st, pfx, init, NoPrefix, order), max_age_seconds, t)

(***************************************************************************)
(* The StorageBackend interface, dispatched on the configured backend.     *)
(***************************************************************************)
save_file(st, filename, content, t) ==
    IF backend = "local" THEN LocalStorage_save_file(st, filename, content, t)
    ELSE S3Storage_save_file(st, prefix, initialized, filename, content, t)

get_file(st, filename) ==
    IF backend = "local" THEN LocalStorage_get_file(st, filename)
    ELSE S3Storage_get_file(st, prefix, initialized, filename)

delete_file(st, filename) ==
    IF backend = "local" THEN LocalStorage_delete_file(st, filename)
    ELSE S3Storage_delete_file(st, prefix, initialized, filename)

rename_file(st, old_name, new_name, t) ==
    IF backend = "local" THEN LocalStorage_rename_file(st, old_name, new_name, t)
    ELSE S3Storage_rename_file(st, prefix, initialized, old_name, new_name, t)

list_files(st, exclude_prefix, order) ==
    IF backend = "local" THEN LocalStorage_list_files(st, exclude_prefix, order)
    ELSE S3Storage_list_files(st, prefix, initialized, exclude_prefix, order)

file_exists(st, filename) ==
    IF backend = "local" THEN LocalStorage_file_exists(st, filename)
    ELSE S3Storage_file_exists(st, prefix, initialized, filename)

cleanup_temp_files(st, max_age_seconds, t, order) ==
    IF backend = "local" THEN LocalStorage_cleanup_temp_files(st, max_age_seconds, t)
    ELSE S3Storage_cleanup_temp_files(st, prefix, initialized, max_age_seconds, t, order)

(***************************************************************************)
(* The same operations with the backend able to fail.  `fault` names the   *)
(* backend call of the operation that raises (0: none, 1: the first, 2:    *)
(* the second).  A result carries the store left behind, the value         *)
(* returned, the number of s3_client calls issued and whether an exception *)
(* left the operation.                                                     *)
(***************************************************************************)
Faults == {0, 1, 2}
\* for an operation that makes one backend call
Faults1 == {0, 1}

Ok(st, ret, calls) == [st |-> st, ret |-> ret, calls |-> calls, raised |-> FALSE]
Raise(st, calls) == [st |-> st, ret |-> FALSE, calls |-> calls, raised |-> TRUE]

\* try: ... except Exception: return failure
Catch(r, failure) ==
    IF r.raised THEN [r EXCEPT !.ret = failure, !.raised = FALSE] ELSE r

\* get_file_url returns None; a URL is never the empty string
NoUrl == << >>
API_PLAY == <<"/", "a", "p", "i", "/", "p", "l", "a", "y", "/">>
\* generate_presigned_url('get_object', Key=key, ExpiresIn=3600)
PresignedUrl(key) == <<"s", "3", ":">> \o key

\* a failed write reported as success
Mut_LocalStorage_save_file_io_swallow(st, filename, content, t, fault) ==
    Catch(IF fault = 1 THEN Raise(st, 0)
          ELSE IF fault = 2 THEN Ok(Put(st, filename, << >>, t), TRUE, 0)
          ELSE Ok(LocalStorage_save_file(st, filename, content, t).st, TRUE, 0),
          FALSE)

\* open(filepath, 'wb') creates or truncates the file; the bytes reach it
\* when write/close flush them
LocalStorage_save_file_io(st, filename, content, t, fault) ==
    Catch(IF fault = 1 THEN Raise(st, 0)
          ELSE IF fault = 2 THEN Raise(Put(st, filename, << >>, t), 0)
          ELSE Ok(LocalStorage_save_file(st, filename, content, t).st, TRUE, 0),
          FALSE)

LocalStorage_get_file_io(st, filename, fault) ==
    Catch(IF filename \notin DOMAIN st THEN Ok(st, None, 0)
          ELSE IF fault # 0 THEN Raise(st, 0)
          ELSE Ok(st, LocalStorage_get_file(st, filename), 0),
          None)

\* the try/except around os.remove left out
Mut_LocalStorage_delete_file_io_notry(st, filename, fault) ==
    IF filename \notin DOMAIN st THEN Ok(st, FALSE, 0)
    ELSE IF fault # 0 THEN Raise(st, 0)
    ELSE Ok(LocalStorage_delete_file(st, filename).st, TRUE, 0)

LocalStorage_delete_file_io(st, filename, fault) ==
    Catch(IF filename \notin DOMAIN st THEN Ok(st, FALSE, 0)
          ELSE IF fault # 0 THEN Raise(st, 0)
          ELSE Ok(LocalStorage_delete_file(st, filename).st, TRUE, 0),
          FALSE)

LocalStorage_rename_file_io(st, old_name, new_name, t, fault) ==
    Catch(IF old_name \notin DOMAIN st THEN Ok(st, FALSE, 0)
          ELSE IF fault # 0 THEN Raise(st, 0)
          ELSE Ok(LocalStorage_rename_file(st, old_name, new_name, t).st, TRUE, 0),
          FALSE)

\* fault 1: os.listdir raises; fault 2: getsize/getctime of the last entry
\* raises.  `files` then holds the entries appended so far, unsorted.
LocalStorage_list_files_io(st, exclude_prefix, order, fault) ==
    LET final == IF order = << >> THEN << >> ELSE order[Len(order)]
        stat_last == /\ order # << >>
                     /\ ~(exclude_prefix # << >> /\ StartsWith(final, exclude_prefix))
                     /\ IsAudio(final)
    IN  IF fault = 1 THEN Catch(Raise(st, 0), << >>)
        ELSE IF fault = 2 /\ stat_last
        THEN Catch(Raise(st, 0),
                   LocalStorage_list_loop(st, exclude_prefix,
                                          SubSeq(order, 1, Len(order) - 1)))
        ELSE Ok(st, LocalStorage_list_files(st, exclude_prefix, order), 0)

\* os.path.exists answers False when the stat call fails
LocalStorage_file_exists_io(st, filename, fault) ==
    IF fault # 0 THEN Ok(st, FALSE, 0)
    ELSE Ok(st, LocalStorage_file_exists(st, filename), 0)

LocalStorage_get_file_url_io(st, filename, fault) ==
    IF LocalStorage_file_exists_io(st, filename, fault).ret
    THEN Ok(st, API_PLAY \o filename, 0)
    ELSE Ok(st, NoUrl, 0)

\* fault # 0: os.listdir, or the first getctime/os.remove, raises
LocalStorage_cleanup_temp_files_io(st, max_age_seconds, t, fault) ==
    Catch(IF fault # 0 THEN Raise(st, 0)
          ELSE Ok(LocalStorage_cleanup_temp_files(st, max_age_seconds, t), None, 0),
          None)

\* the _initialized test left out: the client call is made and its
\* AttributeError caught
Mut_S3Storage_save_file_io_noguard(st, pfx, init, filename, content, t, fault) ==
    Catch(IF fault # 0 \/ ~init THEN Raise(st, 1)
          ELSE Ok(S3Storage_save_file(st, pfx, init, filename, content, t).st, TRUE, 1),
          FALSE)

S3Storage_save_file_io(st, pfx, init, filename, content, t, fault) ==
    IF ~init THEN Ok(st, FALSE, 0)
    ELSE Catch(IF fault # 0 THEN Raise(st, 1)
               ELSE Ok(S3Storage_save_file(st, pfx, init, filename, content, t).st, TRUE, 1),
               FALSE)

\* get_object raises NoSuchKey for a missing key
S3Storage_get_file_io(st, pfx, init, filename, fault) ==
    IF ~init THEN Ok(st, None, 0)
    ELSE Catch(IF fault # 0 \/ S3Storage_get_key(pfx, filename) \notin DOMAIN st
               THEN Raise(st, 1)
               ELSE Ok(st, S3Storage_get_file(st, pfx, init, filename), 1),
               None)

S3Storage_delete_file_io(st, pfx, init, filename, fault) ==
    IF ~init THEN Ok(st, FALSE, 0)
    ELSE Catch(IF fault # 0 THEN Raise(st, 1)
               ELSE Ok(S3Storage_delete_file(st, pfx, init, filename).st, TRUE, 1),
               FALSE)

\* the copy undone when the delete of the old key fails
Mut_S3Storage_rename_file_io_rollback(st, pfx, init, old_name, new_name, t, fault) ==
    IF ~init THEN Ok(st, FALSE, 0)
    ELSE LET old_key == S3Storage_get_key(pfx, old_name)
             new_key == S3Storage_get_key(pfx, new_name)
         IN  Catch(IF fault = 1 \/ old_key \notin DOMAIN st \/ old_key = new_key
                   THEN Raise(st, 1)
                   ELSE IF fault = 2
                   THEN Raise(st, 2)
                   ELSE Ok(S3Storage_rename_file(st, pfx, init, old_name, new_name, t).st,
                           TRUE, 2),
                   FALSE)

\* fault 1: copy_object raises; fault 2: delete_object raises after the copy
S3Storage_rename_file_io(st, pfx, init, old_name, new_name, t, fault) ==
    IF ~init THEN Ok(st, FALSE, 0)
    ELSE LET old_key == S3Storage_get_key(pfx, old_name)
             new_key == S3Storage_get_key(pfx, new_name)
         IN  Catch(IF fault = 1 \/ old_key \notin DOMAIN st \/ old_key = new_key
                   THEN Raise(st, 1)
                   ELSE IF fault = 2
                   THEN Raise(Put(st, new_key, st[old_key].content, t), 2)
                   ELSE Ok(S3Storage_rename_file(st, pfx, init, old_name, new_name, t).st,
                           TRUE, 2),
                   FALSE)

S3Storage_list_files_io(st, pfx, init, exclude_prefix, order, fault) ==
    IF ~init THEN Ok(st, << >>, 0)
    ELSE Catch(IF fault # 0 THEN Raise(st, 1)
               ELSE Ok(st, S3Storage_list_files(st, pfx, init, exclude_prefix, order), 1),
               << >>)

\* head_object raises for a missing key; the bare except answers False
S3Storage_file_exists_io(st, pfx, init, filename, fault) ==
    IF ~init THEN Ok(st, FALSE, 0)
    ELSE Catch(IF fault # 0 \/ S3Storage_get_key(pfx, filename) \notin DOMAIN st
               THEN Raise(st, 1)
               ELSE Ok(st, TRUE, 1),
               FALSE)

S3Storage_get_file_url_io(st, pfx, init, filename, fault) ==
    IF ~init THEN Ok(st, NoUrl, 0)
    ELSE Catch(IF fault # 0 THEN Raise(st, 1)
               ELSE Ok(st, PresignedUrl(S3Storage_get_key(pfx, filename)), 1),
               NoUrl)

\* `fault` is the fault of the next delete_file call; later calls meet none
RECURSIVE S3Storage_cleanup_loop_io(_, _, _, _, _, _, _)
S3Storage_cleanup_loop_io(st, pfx, listed, max_age_seconds, t, fault, calls) ==
    IF listed = << >> THEN Ok(st, None, calls)
    ELSE LET file == Head(listed)
         IN  IF StartsWith(file.filename, TEMP_PREFIX)
                /\ t - file.created > max_age_seconds
             THEN LET r == S3Storage_delete_file_io(st, pfx, TRUE, file.filename, fault)
                  IN  S3Storage_cleanup_loop_io(r.st, pfx, Tail(listed), max_age_seconds,
                                                t, 0, calls + r.calls)
             ELSE S3Storage_cleanup_loop_io(st, pfx, Tail(listed), max_age_seconds,
                                            t, fault, calls)

\* fault 1: the listing fails; fault 2: the first delete_object fails
S3Storage_cleanup_temp_files_io(st, pfx, init, max_age_seconds, t, order, fault) ==
    IF ~init THEN Ok(st, None, 0)
    ELSE LET l == S3Storage_list_files_io(st, pfx, init, NoPrefix, order,
                                          IF fault = 1 THEN 1 ELSE 0)
         IN  Catch(S3Storage_cleanup_loop_io(st, pfx, l.ret, max_age_seconds, t,
                                             IF fault = 2 THEN 1 ELSE 0, l.calls),
                   None)

save_file_io(st, filename, content, t, fault) ==
    IF backend = "local" THEN LocalStorage_save_file_io(st, filename, content, t, fault)
    ELSE S3Storage_save_file_io(st, prefix, initialized, filename, content, t, fault)

get_file_io(st, filename, fault) ==
    IF backend = "local" THEN LocalStorage_get_file_io(st, filename, fault)
    ELSE S3Storage_get_file_io(st, prefix, initialized, filename, fault)

delete_file_io(st, filename, fault) ==
    IF backend = "local" THEN LocalStorage_delete_file_io(st, filename, fault)
    ELSE S3Storage_delete_file_io(st, prefix, initialized, filename, fault)

rename_file_io(st, old_name, new_name, t, fault) ==
    IF backend = "local" THEN LocalStorage_rename_file_io(st, old_name, new_name, t, fault)
    ELSE S3Storage_rename_file_io(st, prefix, initialized, old_name, new_name, t, fault)

list_files_io(st, exclude_prefix, order, fault) ==
    IF backend = "local" THEN LocalStorage_list_files_io(st, exclude_prefix, order, fault)
    ELSE S3Storage_list_files_io(st, prefix, initialized, exclude_prefix, order, fault)

file_exists_io(st, filename, fault) ==
    IF backend = "local" THEN LocalStorage_file_exists_io(st, filename, fault)
    ELSE S3Storage_file_exists_io(st, prefix, initialized, filename, fault)

get_file_url_io(st, filename, fault) ==
    IF backend = "local" THEN LocalStorage_get_file_url_io(st, filename, fault)
    ELSE S3Storage_get_file_url_io(st, prefix, initialized, filename, fault)

cleanup_temp_files_io(st, max_age_seconds, t, order, fault) ==
    IF backend = "local"
    THEN LocalStorage_cleanup_temp_files_io(st, max_age_seconds, t, fault)
    ELSE S3Storage_cleanup_temp_files_io(st, prefix, initialized, max_age_seconds, t,
                                         order, fault)

(***************************************************************************)
(* State after construction: get_storage_backend has chosen the backend,   *)
(* the store is empty, the sweeper thread is about to start its first      *)
(* cycle.  `last` is the last storage call and its result, `pre` the store *)
(* that call found.                                                        *)
(***************************************************************************)
Call(op, name, arg, ret) == [op |-> op, name |-> name, arg |-> arg, ret |-> ret]

\* no storage call made yet through the fault-injecting interface
NoIO == [fault |-> 0, calls |-> 0, raised |-> FALSE]
\* nothing attempted in the current sweep cycle
NoLog ==
    [attempted |-> {}, failed |-> {}, retry |-> {}, temp |-> FALSE, raised |-> FALSE,
     raisedBefore |-> FALSE]
\* the routes module is imported and its sweeper thread runs
Booted == [loaded |-> TRUE, sweepers |-> 1, raised |-> FALSE, invoked |-> TRUE]
\* no save_file call in progress
\* a thread that is not inside a call
\* status: the HTTP status of the thread's latest answer
Rest == [pc |-> "rest", name |-> << >>, arg |-> << >>, ret |-> FALSE, status |-> 0]
Threads == {1, 2}
AllRest == [t \in Threads |-> Rest]
\* the thread of the calls that a specification makes from one thread only
Handler == CHOOSE t \in Threads : TRUE

\* TRANSCRIPT_CACHE = SimpleLRUCache(capacity=50)
TRANSCRIPT_CAPACITY == 50

\* SimpleLRUCache.__init__; lock 0: the lock is free
SimpleLRUCache_init(capacity) == [capacity |-> capacity, cache |-> << >>, lock |-> 0]

\* saved: the (name, bytes) pairs of the save_file calls made so far
Idle == [pc |-> "idle", name |-> << >>, content |-> << >>, saved |-> {}]

Init ==
    /\ backend \in {"local", "s3"}
    /\ prefix \in Prefixes
    /\ initialized \in BOOLEAN
    /\ backend = "local" => (prefix = DEFAULT_PREFIX /\ initialized)
    /\ ~initialized => prefix = DEFAULT_PREFIX
    /\ store = EmptyStore
    /\ now = 0
    /\ ticks = 0
    /\ last = Call("init", << >>, << >>, FALSE)
    /\ pre = EmptyStore
    /\ spc = "start"
    /\ current_time = 0
    /\ files = << >>
    /\ idx = 1
    /\ io = NoIO
    /\ cycle = 0
    /\ log = NoLog
    /\ boot = Booted
    /\ writer = Idle
    /\ threads = AllRest
    /\ TRANSCRIPT_CACHE = SimpleLRUCache_init(TRANSCRIPT_CAPACITY)
    /\ sets = {}
    /\ recency = << >>

(***************************************************************************)
(* Storage calls made by request handlers.                                 *)
(***************************************************************************)
SaveFile(filename, content) ==
    LET r == save_file(store, filename, content, now)
    IN  /\ store' = r.st
        /\ last' = Call("save_file", filename, content, r.ret)
        /\ pre' = store
        /\ UNCHANGED <<extVars, configVars, now, ticks, sweepVars>>

GetFile(filename) ==
    /\ last' = Call("get_file", filename, << >>, get_file(store, filename))
    /\ pre' = store
    /\ UNCHANGED <<extVars, configVars, store, now, ticks, sweepVars>>

DeleteFile(filename) ==
    LET r == delete_file(store, filename)
    IN  /\ store' = r.st
        /\ last' = Call("delete_file", filename, << >>, r.ret)
        /\ pre' = store
        /\ UNCHANGED <<extVars, configVars, now, ticks, sweepVars>>

RenameFile(old_name, new_name) ==
    LET r == rename_file(store, old_name, new_name, now)
    IN  /\ store' = r.st
        /\ last' = Call("rename_file", old_name, new_name, r.ret)
        /\ pre' = store
        /\ UNCHANGED <<extVars, configVars, now, ticks, sweepVars>>

ListFiles(exclude_prefix, order) ==
    /\ last' = Call("list_files", exclude_prefix, << >>,
                    list_files(store, exclude_prefix, order))
    /\ pre' = store
    /\ UNCHANGED <<extVars, configVars, store, now, ticks, sweepVars>>

FileExists(filename) ==
    /\ last' = Call("file_exists", filename, << >>, file_exists(store, filename))
    /\ pre' = store
    /\ UNCHANGED <<extVars, configVars, store, now, ticks, sweepVars>>

\* time.time() advances by d seconds
Tick(d) ==
    /\ ticks < MaxTicks
    /\ now' = now + d
    /\ ticks' = ticks + 1
    /\ UNCHANGED <<extVars, configVars, store, last, pre, sweepVars>>

Next ==
    \/ \E f \in Names, c \in Contents : SaveFile(f, c)
    \/ \E f \in Names : GetFile(f)
    \/ \E f \in Names : DeleteFile(f)
    \/ \E f, g \in Names : RenameFile(f, g)
    \/ \E e \in ExcludePrefixes, o \in Orders(DOMAIN store) : ListFiles(e, o)
    \/ \E f \in Names : FileExists(f)
    \/ Tick(1)

Spec == Init /\ [][Next]_vars

(***************************************************************************)
(* cleanup_old_files: the sweeper thread.  One cycle reads the clock,      *)
(* lists every file, deletes the listed files older than                   *)
(* FILE_MAX_AGE_SECONDS one by one, calls cleanup_temp_files(300) and      *)
(* sleeps 300 seconds.  Request handlers run between its storage calls.    *)
(***************************************************************************)
SweepStart(order) ==
    /\ spc = "start"
    /\ current_time' = now
    /\ files' = list_files(store, NoPrefix, order)
    /\ idx' = 1
    /\ spc' = "loop"
    /\ last' = Call("list_files", NoPrefix, << >>, files')
    /\ pre' = store
    /\ UNCHANGED <<extVars, configVars, store, now, ticks>>

\* the listing shrinks under the loop: the entry after a deleted one is skipped
Mut_SweepFile_skip ==
    /\ spc = "loop"
    /\ idx <= Len(files)
    /\ LET file == files[idx]
           file_age == current_time - file.created
       IN  IF file_age > FILE_MAX_AGE_SECONDS
           THEN LET r == delete_file(store, file.filename)
                IN  /\ store' = r.st
                    /\ last' = Call("delete_file", file.filename, << >>, r.ret)
                    /\ pre' = store
                    /\ idx' = idx + 2
           ELSE /\ UNCHANGED <<store, last, pre>>
                /\ idx' = idx + 1
    /\ UNCHANGED <<extVars, configVars, now, ticks, spc, current_time, files>>

SweepFile ==
    /\ spc = "loop"
    /\ idx <= Len(files)
    /\ LET file == files[idx]
           file_age == current_time - file.created
       IN  IF file_age > FILE_MAX_AGE_SECONDS
           THEN LET r == delete_file(store, file.filename)
                IN  /\ store' = r.st
                    /\ last' = Call("delete_file", file.filename, << >>, r.ret)
                    /\ pre' = store
           ELSE UNCHANGED <<store, last, pre>>
    /\ idx' = idx + 1
    /\ UNCHANGED <<extVars, configVars, now, ticks, spc, current_time, files>>

\* hasattr(storage, 'cleanup_temp_files') holds for both backends
SweepTemp(order) ==
    /\ spc = "loop"
    /\ idx > Len(files)
    /\ store' = cleanup_temp_files(store, TEMP_MAX_AGE_SECONDS, now, order)
    /\ last' = Call("cleanup_temp_files", << >>, now, None)
    /\ pre' = store
    /\ spc' = "sleep"
    /\ UNCHANGED <<extVars, configVars, now, ticks, current_time, files, idx>>

\* time.sleep(300)
SweepSleep ==
    /\ spc = "sleep"
    /\ ticks < MaxTicks
    /\ now' = now + SWEEP_INTERVAL
    /\ ticks' = ticks + 1
    /\ spc' = "start"
    /\ UNCHANGED <<extVars, configVars, store, last, pre, current_time, files, idx>>

\* clock steps that bring a file to, and just past, either retention limit
SweepDeltas == {1, FILE_MAX_AGE_SECONDS - SWEEP_INTERVAL, FILE_MAX_AGE_SECONDS}

NextSweep ==
    \/ \E o \in Orders(DOMAIN store) : SweepStart(o)
    \/ SweepFile
    \/ \E o \in Orders(DOMAIN store) : SweepTemp(o)
    \/ SweepSleep
    \/ \E f \in Names : SaveFile(f, <<1>>)
    \/ \E d \in SweepDeltas : Tick(d)

SpecSweep == Init /\ [][NextSweep]_vars

\* files saved, and the clock moved, before the sweeper first runs
PassSetup ==
    /\ spc = "start"
    /\ cycle = 0
    /\ \/ \E f \in Names : SaveFile(f, <<1>>)
       \/ \E d \in SweepDeltas : Tick(d)

(***************************************************************************)
(* Storage calls on a backend that may fail: each call picks the backend   *)
(* call that raises, if any.                                               *)
(***************************************************************************)
IO(fault, r) == [fault |-> fault, calls |-> r.calls, raised |-> r.raised]

SaveFileIO(filename, content, fault) ==
    LET r == save_file_io(store, filename, content, now, fault)
    IN  /\ store' = r.st
        /\ last' = Call("save_file", filename, content, r.ret)
        /\ pre' = store
        /\ io' = IO(fault, r)
        /\ UNCHANGED <<cycle, log, boot, writer, threads, cacheVars, configVars, now,
                       ticks, sweepVars>>

GetFileIO(filename, fault) ==
    LET r == get_file_io(store, filename, fault)
    IN  /\ store' = r.st
        /\ last' = Call("get_file", filename, << >>, r.ret)
        /\ pre' = store
        /\ io' = IO(fault, r)
        /\ UNCHANGED <<cycle, log, boot, writer, threads, cacheVars, configVars, now,
                       ticks, sweepVars>>

DeleteFileIO(filename, fault) ==
    LET r == delete_file_io(store, filename, fault)
    IN  /\ store' = r.st
        /\ last' = Call("delete_file", filename, << >>, r.ret)
        /\ pre' = store
        /\ io' = IO(fault, r)
        /\ UNCHANGED <<cycle, log, boot, writer, threads, cacheVars, configVars, now,
                       ticks, sweepVars>>

RenameFileIO(old_name, new_name, fault) ==
    LET r == rename_file_io(store, old_name, new_name, now, fault)
    IN  /\ store' = r.st
        /\ last' = Call("rename_file", old_name, new_name, r.ret)
        /\ pre' = store
        /\ io' = IO(fault, r)
        /\ UNCHANGED <<cycle, log, boot, writer, threads, cacheVars, configVars, now,
                       ticks, sweepVars>>

ListFilesIO(exclude_prefix, order, fault) ==
    LET r == list_files_io(store, exclude_prefix, order, fault)
    IN  /\ store' = r.st
        /\ last' = Call("list_files", exclude_prefix, << >>, r.ret)
        /\ pre' = store
        /\ io' = IO(fault, r)
        /\ UNCHANGED <<cycle, log, boot, writer, threads, cacheVars, configVars, now,
                       ticks, sweepVars>>

FileExistsIO(filename, fault) ==
    LET r == file_exists_io(store, filename, fault)
    IN  /\ store' = r.st
        /\ last' = Call("file_exists", filename, << >>, r.ret)
        /\ pre' = store
        /\ io' = IO(fault, r)
        /\ UNCHANGED <<cycle, log, boot, writer, threads, cacheVars, configVars, now,
                       ticks, sweepVars>>

GetFileUrlIO(filename, fault) ==
    LET r == get_file_url_io(store, filename, fault)
    IN  /\ store' = r.st
        /\ last' = Call("get_file_url", filename, << >>, r.ret)
        /\ pre' = store
        /\ io' = IO(fault, r)
        /\ UNCHANGED <<cycle, log, boot, writer, threads, cacheVars, configVars, now,
                       ticks, sweepVars>>

CleanupTempFilesIO(order, fault) ==
    LET r == cleanup_temp_files_io(store, TEMP_MAX_AGE_SECONDS, now, order, fault)
    IN  /\ store' = r.st
        /\ last' = Call("cleanup_temp_files", << >>, now, r.ret)
        /\ pre' = store
        /\ io' = IO(fault, r)
        /\ UNCHANGED <<cycle, log, boot, writer, threads, cacheVars, configVars, now,
                       ticks, sweepVars>>

NextFault ==
    \/ \E f \in Names, c \in Contents, x \in Faults : SaveFileIO(f, c, x)
    \/ \E f \in Names, x \in Faults1 : GetFileIO(f, x)
    \/ \E f \in Names, x \in Faults1 : DeleteFileIO(f, x)
    \/ \E f, g \in Names, x \in Faults : RenameFileIO(f, g, x)
    \/ \E e \in {NoPrefix, TEMP_PREFIX}, o \in Orders(DOMAIN store), x \in Faults :
          ListFilesIO(e, o, x)
    \/ \E f \in Names, x \in Faults1 : FileExistsIO(f, x)
    \/ \E f \in Names, x \in Faults1 : GetFileUrlIO(f, x)
    \/ \E o \in Orders(DOMAIN store), x \in Faults : CleanupTempFilesIO(o, x)

SpecFault == Init /\ [][NextFault]_vars

(***************************************************************************)
(* cleanup_old_files on a backend that may fail.  `log` keeps, for the     *)
(* cycle in progress, the listed entries delete_file was called for        *)
(* (attempted), those whose deletion met a fault (failed), the entries     *)
(* that failed in the cycle before (retry), whether cleanup_temp_files was *)
(* called (temp) and whether the try block was left by an exception, in    *)
(* this cycle (raised) and in the one before (raisedBefore).  Any          *)
(* statement of the try block may raise.  Files are saved and the clock is *)
(* moved before the first cycle.  `io` and `pre` describe the sweeper's    *)
(* latest storage call; `last` stays the latest call of a request handler. *)
(***************************************************************************)
CycleStart(order, fault) ==
    /\ spc = "start"
    /\ cycle < MaxCycles
    /\ spc' = "loop"
    /\ cycle' = cycle + 1
    /\ idx' = 1
    /\ current_time' = now
    /\ log' = [NoLog EXCEPT !.retry = log.failed, !.raisedBefore = log.raised]
    /\ pre' = store
    /\ UNCHANGED <<configVars, store, now, ticks, last, boot, writer, threads,
                   cacheVars>>
    /\ LET r == list_files_io(store, NoPrefix, order, fault)
       IN  /\ files' = r.ret
           /\ io' = IO(fault, r)

\* the loop ended by the first deletion that fails
Mut_CycleFile_break(fault) ==
    /\ spc = "loop"
    /\ idx <= Len(files)
    /\ UNCHANGED <<configVars, now, ticks, last, spc, current_time, files, cycle, boot,
                   writer, threads, cacheVars>>
    /\ LET file == files[idx]
           file_age == current_time - file.created
       IN  IF file_age > FILE_MAX_AGE_SECONDS
           THEN LET r == delete_file_io(store, file.filename, fault)
                IN  /\ idx' = IF r.ret = FALSE THEN Len(files) + 1 ELSE idx + 1
                    /\ store' = r.st
                    /\ pre' = store
                    /\ io' = IO(fault, r)
                    /\ log' = [log EXCEPT
                                 !.attempted = @ \cup {file},
                                 !.failed = IF fault # 0 /\ r.ret = FALSE
                                            THEN @ \cup {file} ELSE @]
           ELSE /\ fault = 0
                /\ idx' = idx + 1
                /\ UNCHANGED <<store, pre, io, log>>

CycleFile(fault) ==
    /\ spc = "loop"
    /\ idx <= Len(files)
    /\ idx' = idx + 1
    /\ UNCHANGED <<configVars, now, ticks, last, spc, current_time, files, cycle, boot,
                   writer, threads, cacheVars>>
    /\ LET file == files[idx]
           file_age == current_time - file.created
       IN  IF file_age > FILE_MAX_AGE_SECONDS
           THEN LET r == delete_file_io(store, file.filename, fault)
                IN  /\ store' = r.st
                    /\ pre' = store
                    /\ io' = IO(fault, r)
                    /\ log' = [log EXCEPT
                                 !.attempted = @ \cup {file},
                                 !.failed = IF fault # 0 /\ r.ret = FALSE
                                            THEN @ \cup {file} ELSE @]
           ELSE /\ fault = 0
                /\ UNCHANGED <<store, pre, io, log>>

CycleTemp(order, fault) ==
    /\ spc = "loop"
    /\ idx > Len(files)
    /\ spc' = "sleep"
    /\ log' = [log EXCEPT !.temp = TRUE]
    /\ pre' = store
    /\ UNCHANGED <<configVars, now, ticks, last, current_time, files, idx, cycle, boot,
                   writer, threads, cacheVars>>
    /\ LET r == cleanup_temp_files_io(store, TEMP_MAX_AGE_SECONDS, now, order, fault)
       IN  /\ store' = r.st
           /\ io' = IO(fault, r)

\* a statement of the try block raises
CycleRaise ==
    /\ spc = "loop"
    /\ spc' = "except"
    /\ log' = [log EXCEPT !.raised = TRUE]
    /\ UNCHANGED <<configVars, store, now, ticks, last, pre, current_time, files, idx,
                   io, cycle, boot, writer, threads, cacheVars>>

\* the thread dies of the exception
Mut_CycleExcept_die ==
    /\ spc = "except"
    /\ spc' = "dead"
    /\ UNCHANGED <<configVars, store, now, ticks, last, pre, current_time, files, idx,
                   io, cycle, log, boot, writer, threads, cacheVars>>

\* except Exception as e: print(...)
CycleExcept ==
    /\ spc = "except"
    /\ spc' = "sleep"
    /\ UNCHANGED <<configVars, store, now, ticks, last, pre, current_time, files, idx,
                   io, cycle, log, boot, writer, threads, cacheVars>>

\* time.sleep(300), then the top of `while True`
CycleSleep ==
    /\ spc = "sleep"
    /\ now' = now + SWEEP_INTERVAL
    /\ spc' = "start"
    /\ UNCHANGED <<configVars, store, ticks, last, pre, current_time, files, idx,
                   io, cycle, log, boot, writer, threads, cacheVars>>

Sweeper ==
    \/ \E o \in Orders(DOMAIN store), x \in Faults1 : CycleStart(o, x)
    \/ \E x \in Faults1 : CycleFile(x)
    \/ \E o \in Orders(DOMAIN store), x \in Faults : CycleTemp(o, x)
    \/ CycleExcept
    \/ CycleSleep

NextCycle ==
    \/ Sweeper
    \/ CycleRaise
    \/ PassSetup

SpecCycle == Init /\ [][NextCycle]_vars

\* a step of Sweeper, seen as the move of the thread's position
SweeperMove ==
    \/ spc = "start" /\ cycle < MaxCycles /\ spc' = "loop" /\ idx' = 1
    \/ spc = "loop" /\ idx <= Len(files) /\ spc' = spc /\ idx' = idx + 1
    \/ spc = "loop" /\ idx > Len(files) /\ spc' = "sleep" /\ idx' = idx
    \/ spc = "except" /\ spc' = "sleep" /\ idx' = idx
    \/ spc = "sleep" /\ spc' = "start" /\ idx' = idx

\* the sweeper is a thread of its own: it is scheduled again and again, and
\* sleep returns
SpecCycleFair == SpecCycle /\ WF_<<spc, idx>>(SweeperMove)

(***************************************************************************)
(* Process bootstrap.  get_storage_backend reads the environment; the      *)
(* routes module runs it, and starts cleanup_thread, when the module is    *)
(* first imported; create_app of run.py imports the module and then the    *)
(* name start_cleanup_task from it.  client_ok: boto3 imports and          *)
(* boto3.client(...) returns; makedirs_ok: os.makedirs(base_dir) returns.  *)
(***************************************************************************)
\* os.environ.get(name) of a variable that is not set
Unset == <<"<unset>">>
TYPE_S3 == <<"s", "3">>
TYPE_LOCAL == <<"l", "o", "c", "a", "l">>
StorageTypes == {Unset, TYPE_LOCAL, TYPE_S3, <<"S", "3">>, <<"g", "c", "s">>}
BucketNames == {Unset, << >>, <<"b">>}
PrefixSettings == {Unset, ALT_PREFIX}
Environments ==
    [STORAGE_TYPE : StorageTypes, S3_BUCKET_NAME : BucketNames,
     S3_PREFIX : PrefixSettings, client_ok : BOOLEAN, makedirs_ok : BOOLEAN]

\* os.environ.get(name, default)
EnvGet(value, default) == IF value = Unset THEN default ELSE value

\* str.lower
LowerChar(c) ==
    CASE c = "S" -> "s"
      [] c = "L" -> "l"
      [] c = "G" -> "g"
      [] OTHER -> c

Lower(str) == [i \in 1..Len(str) |-> LowerChar(str[i])]

\* S3Storage.__init__: every exception is caught and leaves _initialized False
\* (self.prefix is assigned before boto3.client is called)
S3Storage_init(pfx, client_ok) ==
    [kind |-> "s3", prefix |-> pfx, initialized |-> client_ok, raised |-> FALSE]

\* LocalStorage.__init__: os.makedirs is not inside a try block
LocalStorage_init(makedirs_ok) ==
    [kind |-> IF makedirs_ok THEN "local" ELSE "none", prefix |-> DEFAULT_PREFIX,
     initialized |-> makedirs_ok, raised |-> ~makedirs_ok]

get_storage_backend(env) ==
    LET storage_type == Lower(EnvGet(env.STORAGE_TYPE, TYPE_LOCAL))
        bucket_name == env.S3_BUCKET_NAME
    IN  IF storage_type = TYPE_S3 /\ bucket_name # Unset /\ bucket_name # << >>
        THEN S3Storage_init(EnvGet(env.S3_PREFIX, DEFAULT_PREFIX), env.client_ok)
        ELSE LocalStorage_init(env.makedirs_ok)

NotBooted == [loaded |-> FALSE, sweepers |-> 0, raised |-> FALSE, invoked |-> FALSE]

InitBoot ==
    /\ backend = "none"
    /\ prefix = DEFAULT_PREFIX
    /\ initialized = FALSE
    /\ store = EmptyStore
    /\ now = 0
    /\ ticks = 0
    /\ last = Call("init", << >>, << >>, FALSE)
    /\ pre = EmptyStore
    /\ spc = "start"
    /\ current_time = 0
    /\ files = << >>
    /\ idx = 1
    /\ io = NoIO
    /\ cycle = 0
    /\ log = NoLog
    /\ boot = NotBooted
    /\ writer = Idle
    /\ threads = AllRest
    /\ TRANSCRIPT_CACHE = SimpleLRUCache_init(TRANSCRIPT_CAPACITY)
    /\ sets = {}
    /\ recency = << >>

\* `import experiments.tts_pirate.routes`: the module body (storage =
\* get_storage_backend(), ..., cleanup_thread.start()) runs unless the module
\* is in sys.modules; a body that raises leaves the module unloaded
routes_import(b, env) ==
    LET r == get_storage_backend(env)
    IN  IF b.loaded
        THEN [boot |-> [b EXCEPT !.raised = FALSE, !.invoked = TRUE], ran |-> FALSE,
              r |-> r]
        ELSE IF r.raised
        THEN [boot |-> [b EXCEPT !.raised = TRUE, !.invoked = TRUE], ran |-> TRUE, r |-> r]
        ELSE [boot |-> [loaded |-> TRUE, sweepers |-> b.sweepers + 1, raised |-> FALSE,
                        invoked |-> TRUE],
              ran |-> TRUE, r |-> r]

\* an entry point that imports the module; name_missing: the import statement
\* asks the module for a name it does not define and raises ImportError
Bootstrap(op, env, name_missing) ==
    LET m == routes_import(boot, env)
    IN  /\ boot' = [m.boot EXCEPT !.raised = @ \/ name_missing]
        /\ IF m.ran
           THEN last' = Call("get_storage_backend", env, op, m.r)
           ELSE UNCHANGED last
        /\ IF m.ran /\ ~m.r.raised
           THEN /\ backend' = m.r.kind
                /\ prefix' = m.r.prefix
                /\ initialized' = m.r.initialized
           ELSE UNCHANGED configVars
        /\ UNCHANGED <<store, now, ticks, pre, sweepVars, io, cycle, log, writer,
                       threads, cacheVars>>

\* any importer of the routes module
ImportRoutes(env) == Bootstrap("import_routes", env, FALSE)

\* run.py create_app: Config.validate() raises in production without a
\* SECRET_KEY; then from experiments.tts_pirate.routes import tts_bp,
\* start_cleanup_task -- the module defines no start_cleanup_task
CreateApp(env, validate_ok) ==
    IF validate_ok
    THEN Bootstrap("create_app", env, TRUE)
    ELSE /\ boot' = [boot EXCEPT !.raised = TRUE, !.invoked = TRUE]
         /\ UNCHANGED <<configVars, store, now, ticks, last, pre, sweepVars, io,
                        cycle, log, writer, threads, cacheVars>>

NextBoot ==
    \/ \E env \in Environments : ImportRoutes(env)
    \/ \E env \in Environments, validate_ok \in BOOLEAN : CreateApp(env, validate_ok)

SpecBoot == InitBoot /\ [][NextBoot]_vars

(***************************************************************************)
(* A save_file call running in one thread while request handlers of        *)
(* another thread read.  LocalStorage.save_file is three steps on the file *)
(* system: open(filepath, 'wb') creates or truncates the file, the bytes   *)
(* reach the file as the buffer is flushed, and close flushes what is left *)
(* before True is returned.  S3Storage.save_file is one put_object call,   *)
(* which replaces the object as a whole.                                   *)
(***************************************************************************)
SaveOpen(filename, content) ==
    /\ backend = "local"
    /\ writer.pc = "idle"
    /\ store' = Put(store, filename, << >>, now)
    /\ writer' = [pc |-> "opened", name |-> filename, content |-> content,
                  saved |-> writer.saved \cup {<<filename, content>>}]
    /\ UNCHANGED <<configVars, now, ticks, last, pre, sweepVars, io, cycle, log,
                   boot, threads, cacheVars>>

\* one more byte of the buffer reaches the file
SaveFlush ==
    /\ writer.pc = "opened"
    /\ Len(store[writer.name].content) < Len(writer.content)
    /\ store' = Put(store, writer.name,
                    SubSeq(writer.content, 1, Len(store[writer.name].content) + 1), now)
    /\ UNCHANGED <<configVars, now, ticks, last, pre, sweepVars, extVars>>

SaveClose ==
    /\ writer.pc = "opened"
    /\ store' = Put(store, writer.name, writer.content, now)
    /\ last' = Call("save_file", writer.name, writer.content, TRUE)
    /\ pre' = store
    /\ writer' = [Idle EXCEPT !.saved = writer.saved]
    /\ UNCHANGED <<configVars, now, ticks, sweepVars, io, cycle, log, boot, threads,
                   cacheVars>>

SavePut(filename, content) ==
    LET r == save_file(store, filename, content, now)
    IN  /\ backend = "s3"
        /\ store' = r.st
        /\ last' = Call("save_file", filename, content, r.ret)
        /\ pre' = store
        /\ writer' = [writer EXCEPT !.saved = @ \cup {<<filename, content>>}]
        /\ UNCHANGED <<configVars, now, ticks, sweepVars, io, cycle, log, boot,
                       threads, cacheVars>>

NextRace ==
    \/ \E f \in Names, c \in Contents : SaveOpen(f, c)
    \/ SaveFlush
    \/ SaveClose
    \/ \E f \in Names, c \in Contents : SavePut(f, c)
    \/ \E f \in Names : GetFile(f)

SpecRace == Init /\ [][NextRace]_vars

(***************************************************************************)
(* The history endpoint next to the sweeper's listing, list_files() with   *)
(* no exclusion.  S3_PREFIX is any string of the environment;              *)
(* HistoryPrefixes adds one that occurs in the names of temporary files.   *)
(***************************************************************************)
TEMP_DIR == <<"t", "e", "m", "p">>
HistoryPrefixes == Prefixes \cup {TEMP_DIR}

InitHistory ==
    /\ backend \in {"local", "s3"}
    /\ prefix \in HistoryPrefixes
    /\ initialized \in BOOLEAN
    /\ backend = "local" => (prefix = DEFAULT_PREFIX /\ initialized)
    /\ store = EmptyStore
    /\ now = 0
    /\ ticks = 0
    /\ last = Call("init", << >>, << >>, FALSE)
    /\ pre = EmptyStore
    /\ spc = "start"
    /\ current_time = 0
    /\ files = << >>
    /\ idx = 1
    /\ io = NoIO
    /\ cycle = 0
    /\ log = NoLog
    /\ boot = Booted
    /\ writer = Idle
    /\ threads = AllRest
    /\ TRANSCRIPT_CACHE = SimpleLRUCache_init(TRANSCRIPT_CAPACITY)
    /\ sets = {}
    /\ recency = << >>

\* max(0, FILE_MAX_AGE_SECONDS - age)
Remaining(t, created) ==
    IF FILE_MAX_AGE_SECONDS - (t - created) > 0
    THEN FILE_MAX_AGE_SECONDS - (t - created) ELSE 0

\* api_history: the `files` of the JSON answer
api_history(st, t, order) ==
    LET listed == list_files(st, TEMP_PREFIX, order)
    IN  [i \in 1..Len(listed) |->
            [filename |-> listed[i].filename,
             size |-> listed[i].size,
             created |-> listed[i].created,
             expires_in_seconds |-> Remaining(t, listed[i].created),
             expires_in_minutes |-> Remaining(t, listed[i].created) \div 60]]

ApiHistory(order) ==
    /\ last' = Call("api_history", TEMP_PREFIX, << >>, api_history(store, now, order))
    /\ pre' = store
    /\ UNCHANGED <<extVars, configVars, store, now, ticks, sweepVars>>

NextHistory ==
    \/ \E f \in Names, c \in Contents : SaveFile(f, c)
    \/ \E f \in Names : DeleteFile(f)
    \/ \E o \in Orders(DOMAIN store) : ApiHistory(o)
    \/ \E o \in Orders(DOMAIN store) : ListFiles(NoPrefix, o)
    \/ Tick(1)

SpecHistory == InitHistory /\ [][NextHistory]_vars

(***************************************************************************)
(* The rename endpoint of app.py, api_rename_file, as the steps a request  *)
(* thread takes between its storage calls, with other requests (a second   *)
(* rename, a save, a delete) running between them.                         *)
(***************************************************************************)
N_b == <<"b">> \o EXT_MP3
N_d == <<"d">> \o EXT_MP3
RenameNames == {N_a, N_b, N_d}
\* the <filename> of the URL and the new_name of the JSON body
UrlNames == {N_a, N_b, <<"/", "a">> \o EXT_MP3, <<"a", ".", "t", "x", "t">>}
NewNames == {<<"b">>, <<" ", "d", "/">>, <<"/">>, << >>}
NoName == << >>

AlNum == {"a", "b", "c", "d", "e", "h", "m", "p", "s", "t", "x", "3"}
IsSafeChar(c) == c \in AlNum \cup {" ", "-", "_"}

\* str.strip() of the blanks
RECURSIVE Strip(_)
Strip(str) ==
    IF str = << >> THEN str
    ELSE IF Head(str) = " " THEN Strip(Tail(str))
    ELSE IF str[Len(str)] = " " THEN Strip(SubSeq(str, 1, Len(str) - 1))
    ELSE str

\* "".join(c for c in name if c.isalnum() or c in (' ', '-', '_')).strip()
SafeName(name) == Strip(SelectSeq(name, IsSafeChar))

\* os.path.basename
Basename(path) ==
    LET slashes == {i \in 1..Len(path) : path[i] = "/"}
    IN  IF slashes = {} THEN path
        ELSE SubSeq(path, (CHOOSE i \in slashes : \A j \in slashes : j <= i) + 1, Len(path))

\* os.path.splitext: the extension starts at the last dot that is not the
\* first character
SplitExt(filename) ==
    LET dots == {i \in 2..Len(filename) : filename[i] = "."}
        k == IF dots = {} THEN Len(filename) + 1
             ELSE CHOOSE i \in dots : \A j \in dots : j <= i
    IN  [name |-> SubSeq(filename, 1, k - 1), ext |-> SubSeq(filename, k, Len(filename))]

\* NoName stands for None
sanitize_filename(filename) ==
    LET base == Basename(filename)
        parts == SplitExt(base)
    IN  IF filename = << >> \/ base = << >> THEN NoName
        ELSE IF parts.ext \notin {EXT_MP3, EXT_WAV} THEN NoName
        ELSE IF SafeName(parts.name) = << >> THEN NoName
        ELSE SafeName(parts.name) \o parts.ext

Answer(status) == [Rest EXCEPT !.status = status]

\* up to storage.file_exists(safe_filename) and the validation of new_name
ApiRenameBegin(t, filename, new_name) ==
    /\ threads[t].pc = "rest"
    /\ UNCHANGED <<configVars, store, now, ticks, last, pre, sweepVars, io, cycle, log,
                   boot, writer, cacheVars>>
    /\ LET safe_filename == sanitize_filename(filename)
           safe_new_name == SafeName(Strip(new_name))
           new_filename == safe_new_name \o SplitExt(safe_filename).ext
       IN  threads' = [threads EXCEPT ![t] =
              IF safe_filename = NoName THEN Answer(400)
              ELSE IF file_exists(store, safe_filename) = FALSE THEN Answer(404)
              ELSE IF Strip(new_name) = << >> \/ safe_new_name = << >> THEN Answer(400)
              ELSE [pc |-> "found", name |-> safe_filename, arg |-> new_filename,
                    ret |-> FALSE, status |-> 0]]

\* if storage.file_exists(new_filename) and new_filename != safe_filename
ApiRenameCheck(t) ==
    /\ threads[t].pc = "found"
    /\ threads' = [threads EXCEPT ![t] =
          IF file_exists(store, @.arg) = TRUE /\ @.arg # @.name
          THEN Answer(400)
          ELSE [@ EXCEPT !.pc = "checked"]]
    /\ UNCHANGED <<configVars, store, now, ticks, last, pre, sweepVars, io, cycle, log,
                   boot, writer, cacheVars>>

\* storage.rename_file(safe_filename, new_filename) and the answer
ApiRenameCall(t) ==
    /\ threads[t].pc = "checked"
    /\ LET r == rename_file(store, threads[t].name, threads[t].arg, now)
       IN  /\ store' = r.st
           /\ last' = Call("rename_file", threads[t].name, threads[t].arg, r.ret)
           /\ pre' = store
           /\ threads' = [threads EXCEPT ![t] =
                 [Answer(IF r.ret THEN 200 ELSE 500) EXCEPT !.ret = r.ret]]
    /\ UNCHANGED <<configVars, now, ticks, sweepVars, io, cycle, log, boot, writer,
                   cacheVars>>

NextRename ==
    \/ \E t \in Threads, f \in UrlNames, n \in NewNames : ApiRenameBegin(t, f, n)
    \/ \E t \in Threads : ApiRenameCheck(t)
    \/ \E t \in Threads : ApiRenameCall(t)
    \/ \E f \in RenameNames, c \in Contents : SaveFile(f, c)
    \/ \E f \in RenameNames : DeleteFile(f)

SpecRename == Init /\ [][NextRename]_vars

(***************************************************************************)
(* S3Storage.rename_file in one thread and S3Storage.delete_file in        *)
(* another.  rename_file is two requests to the bucket, copy_object and    *)
(* delete_object; delete_file is one.  Files are saved before the calls    *)
(* begin; each thread makes one call.  status 1 marks the call that began  *)
(* while the other thread's call was in progress, and `pre` is the store   *)
(* at that moment.                                                         *)
(***************************************************************************)
InCall(t) == threads[t].pc \in {"rename", "copied", "delete"}

Begin(t, pc, name, arg) ==
    /\ backend = "s3"
    /\ threads[t].pc = "rest"
    /\ LET overlap == \E u \in Threads \ {t} : InCall(u)
       IN  /\ threads' = [threads EXCEPT ![t] =
                 [pc |-> pc, name |-> name, arg |-> arg, ret |-> FALSE,
                  status |-> IF overlap THEN 1 ELSE 0]]
           /\ pre' = IF overlap THEN store ELSE pre
    /\ UNCHANGED <<configVars, store, now, ticks, last, sweepVars, io, cycle, log, boot,
                   writer, cacheVars>>

\* rename_file is entered
S3RenameBegin(t, old_name, new_name) == Begin(t, "rename", old_name, new_name)

\* copy_object that writes nothing
Mut_S3RenameCopy_nowrite(t) ==
    /\ threads[t].pc = "rename"
    /\ threads' = [threads EXCEPT ![t].pc = "copied"]
    /\ UNCHANGED <<configVars, store, now, ticks, last, pre, sweepVars, io, cycle, log,
                   boot, writer, cacheVars>>

\* if not self._initialized: return False; copy_object raises for a missing
\* source key and for a copy of a key onto itself
S3RenameCopy(t) ==
    /\ threads[t].pc = "rename"
    /\ LET old_key == S3Storage_get_key(prefix, threads[t].name)
           new_key == S3Storage_get_key(prefix, threads[t].arg)
       IN  IF ~initialized \/ old_key \notin DOMAIN store \/ old_key = new_key
           THEN /\ threads' = [threads EXCEPT ![t].pc = "renamed", ![t].ret = FALSE]
                /\ UNCHANGED store
           ELSE /\ threads' = [threads EXCEPT ![t].pc = "copied"]
                /\ store' = Put(store, new_key, store[old_key].content, now)
    /\ UNCHANGED <<configVars, now, ticks, last, pre, sweepVars, io, cycle, log, boot,
                   writer, cacheVars>>

\* delete_object of the old key, which succeeds for a missing key; return True
S3RenameDelete(t) ==
    /\ threads[t].pc = "copied"
    /\ store' = Remove(store, S3Storage_get_key(prefix, threads[t].name))
    /\ threads' = [threads EXCEPT ![t].pc = "renamed", ![t].ret = TRUE]
    /\ UNCHANGED <<configVars, now, ticks, last, pre, sweepVars, io, cycle, log, boot,
                   writer, cacheVars>>

\* delete_file is entered
S3DeleteBegin(t, filename) == Begin(t, "delete", filename, << >>)

S3DeleteCall(t) ==
    /\ threads[t].pc = "delete"
    /\ LET r == S3Storage_delete_file(store, prefix, initialized, threads[t].name)
       IN  /\ store' = r.st
           /\ threads' = [threads EXCEPT ![t].pc = "deleted", ![t].ret = r.ret]
    /\ UNCHANGED <<configVars, now, ticks, last, pre, sweepVars, io, cycle, log, boot,
                   writer, cacheVars>>

\* the files in the bucket before the calls
S3RaceSetup ==
    /\ \A t \in Threads : threads[t].pc = "rest"
    /\ \E f \in Names, c \in Contents : SaveFile(f, c)

NextS3Race ==
    \/ S3RaceSetup
    \/ \E t \in Threads, f, g \in Names : S3RenameBegin(t, f, g)
    \/ \E t \in Threads : S3RenameCopy(t)
    \/ \E t \in Threads : S3RenameDelete(t)
    \/ \E t \in Threads, f \in Names : S3DeleteBegin(t, f)
    \/ \E t \in Threads : S3DeleteCall(t)

SpecS3Race == Init /\ [][NextS3Race]_vars

(***************************************************************************)
(* SimpleLRUCache (src/core/utils.py) called from the request threads of   *)
(* the summarizer.  cache is the OrderedDict as its items, oldest first.   *)
(* `with self.lock` is a step that waits until the lock is free; the body  *)
(* runs in the steps that follow, and the last of them releases the lock.  *)
(***************************************************************************)
Capacities == {1, 2}
CacheKeys == {<<"u">>, <<"v">>, <<"w">>}
CacheValues == {<<1>>, <<2, 3>>}

KeysOf(items) == {items[i].key : i \in 1..Len(items)}
IndexOf(items, key) == CHOOSE i \in 1..Len(items) : items[i].key = key
ValueOf(items, key) == items[IndexOf(items, key)].value
Without(items, key) == SelectSeq(items, LAMBDA e : e.key # key)

\* OrderedDict.move_to_end(key)
MoveToEnd(items, key) == Without(items, key) \o <<items[IndexOf(items, key)]>>

\* the body of get
SimpleLRUCache_get(items, key) ==
    IF key \notin KeysOf(items)
    THEN [cache |-> items, ret |-> None]
    ELSE [cache |-> MoveToEnd(items, key), ret |-> ValueOf(items, key)]

\* a set of a cached key that leaves its place in the order alone
Mut_SimpleLRUCache_assign_fifo(items, key, value) ==
    IF key \in KeysOf(items)
    THEN [i \in 1..Len(items) |->
             IF items[i].key = key THEN [key |-> key, value |-> value] ELSE items[i]]
    ELSE Append(items, [key |-> key, value |-> value])

\* set: if key in self.cache: move_to_end(key); self.cache[key] = value
SimpleLRUCache_assign(items, key, value) ==
    IF key \in KeysOf(items)
    THEN Without(items, key) \o <<[key |-> key, value |-> value]>>
    ELSE Append(items, [key |-> key, value |-> value])

\* set: if len(self.cache) > self.capacity: popitem(last=False)
SimpleLRUCache_evict(items, capacity) ==
    IF Len(items) > capacity THEN Tail(items) ELSE items

\* the key becomes the most recently used
Touch(order, key) == SelectSeq(order, LAMBDA k : k # key) \o <<key>>

InitCache ==
    /\ backend = "local"
    /\ prefix = DEFAULT_PREFIX
    /\ initialized = TRUE
    /\ store = EmptyStore
    /\ now = 0
    /\ ticks = 0
    /\ last = Call("init", << >>, << >>, FALSE)
    /\ pre = EmptyStore
    /\ spc = "start"
    /\ current_time = 0
    /\ files = << >>
    /\ idx = 1
    /\ io = NoIO
    /\ cycle = 0
    /\ log = NoLog
    /\ boot = Booted
    /\ writer = Idle
    /\ threads = AllRest
    /\ \E capacity \in Capacities : TRANSCRIPT_CACHE = SimpleLRUCache_init(capacity)
    /\ sets = {}
    /\ recency = << >>

\* a lock that is never waited for
Mut_Acquire_nowait(t, pc, key, value) ==
    /\ threads[t].pc = "rest"
    /\ threads' = [threads EXCEPT ![t] =
          [pc |-> pc, name |-> key, arg |-> value, ret |-> FALSE, status |-> 0]]
    /\ TRANSCRIPT_CACHE' = [TRANSCRIPT_CACHE EXCEPT !.lock = t]

\* with self.lock: entered
Acquire(t, pc, key, value) ==
    /\ threads[t].pc = "rest"
    /\ TRANSCRIPT_CACHE.lock = 0
    /\ threads' = [threads EXCEPT ![t] =
          [pc |-> pc, name |-> key, arg |-> value, ret |-> FALSE, status |-> 0]]
    /\ TRANSCRIPT_CACHE' = [TRANSCRIPT_CACHE EXCEPT !.lock = t]

CacheGetBegin(t, key) ==
    /\ Acquire(t, "get", key, << >>)
    /\ UNCHANGED <<configVars, store, now, ticks, last, pre, sweepVars, io, cycle, log,
                   boot, writer, sets, recency>>

CacheGet(t) ==
    /\ threads[t].pc = "get"
    /\ LET r == SimpleLRUCache_get(TRANSCRIPT_CACHE.cache, threads[t].name)
       IN  /\ TRANSCRIPT_CACHE' = [TRANSCRIPT_CACHE EXCEPT !.cache = r.cache, !.lock = 0]
           /\ threads' = [threads EXCEPT ![t].pc = "rest", ![t].ret = r.ret]
           /\ recency' = IF r.ret = None THEN recency ELSE Touch(recency, threads[t].name)
    /\ UNCHANGED <<configVars, store, now, ticks, last, pre, sweepVars, io, cycle, log,
                   boot, writer, sets>>

CacheSetBegin(t, key, value) ==
    /\ Acquire(t, "set", key, value)
    /\ sets' = sets \cup {<<key, value>>}
    /\ UNCHANGED <<configVars, store, now, ticks, last, pre, sweepVars, io, cycle, log,
                   boot, writer, recency>>

CacheSetAssign(t) ==
    /\ threads[t].pc = "set"
    /\ TRANSCRIPT_CACHE' = [TRANSCRIPT_CACHE EXCEPT
          !.cache = SimpleLRUCache_assign(@, threads[t].name, threads[t].arg)]
    /\ threads' = [threads EXCEPT ![t].pc = "assigned"]
    /\ recency' = Touch(recency, threads[t].name)
    /\ UNCHANGED <<configVars, store, now, ticks, last, pre, sweepVars, io, cycle, log,
                   boot, writer, sets>>

CacheSetEvict(t) ==
    /\ threads[t].pc = "assigned"
    /\ TRANSCRIPT_CACHE' = [TRANSCRIPT_CACHE EXCEPT
          !.cache = SimpleLRUCache_evict(@, TRANSCRIPT_CACHE.capacity), !.lock = 0]
    /\ threads' = [threads EXCEPT ![t].pc = "rest"]
    /\ UNCHANGED <<configVars, store, now, ticks, last, pre, sweepVars, io, cycle, log,
                   boot, writer, sets, recency>>

CacheClearBegin(t) ==
    /\ Acquire(t, "clear", << >>, << >>)
    /\ UNCHANGED <<configVars, store, now, ticks, last, pre, sweepVars, io, cycle, log,
                   boot, writer, sets, recency>>

CacheClear(t) ==
    /\ threads[t].pc = "clear"
    /\ TRANSCRIPT_CACHE' = [TRANSCRIPT_CACHE EXCEPT !.cache = << >>, !.lock = 0]
    /\ threads' = [threads EXCEPT ![t].pc = "rest"]
    /\ UNCHANGED <<configVars, store, now, ticks, last, pre, sweepVars, io, cycle, log,
                   boot, writer, sets, recency>>

NextCache ==
    \/ \E t \in Threads, k \in CacheKeys : CacheGetBegin(t, k)
    \/ \E t \in Threads : CacheGet(t)
    \/ \E t \in Threads, k \in CacheKeys, v \in CacheValues : CacheSetBegin(t, k, v)
    \/ \E t \in Threads : CacheSetAssign(t)
    \/ \E t \in Threads : CacheSetEvict(t)
    \/ \E t \in Threads : CacheClearBegin(t)
    \/ \E t \in Threads : CacheClear(t)

SpecCache == InitCache /\ [][NextCache]_vars

(***************************************************************************)
(* The sweeper running for ever on a backend whose calls succeed.  Files   *)
(* are saved, and the clock is moved, before the first cycle only, so that *)
(* no file is saved again later.  The clock is not moved beyond ClockCap,  *)
(* at which every file saved in time is older than FILE_MAX_AGE_SECONDS.   *)
(***************************************************************************)
ClockCap == MaxTicks * FILE_MAX_AGE_SECONDS + FILE_MAX_AGE_SECONDS + SWEEP_INTERVAL

\* the top of `while True`: time.time() and storage.list_files()
EverStart(order) ==
    /\ spc = "start"
    /\ spc' = "loop"
    /\ cycle' = IF cycle < MaxCycles THEN cycle + 1 ELSE cycle
    /\ idx' = 1
    /\ current_time' = now
    /\ log' = [NoLog EXCEPT !.retry = log.failed, !.raisedBefore = log.raised]
    /\ pre' = store
    /\ UNCHANGED <<configVars, store, now, ticks, last, boot, writer, threads, cacheVars>>
    /\ LET r == list_files_io(store, NoPrefix, order, 0)
       IN  /\ files' = r.ret
           /\ io' = IO(0, r)

\* time.sleep(300)
EverSleep ==
    /\ spc = "sleep"
    /\ now' = IF now + SWEEP_INTERVAL > ClockCap THEN now ELSE now + SWEEP_INTERVAL
    /\ spc' = "start"
    /\ UNCHANGED <<configVars, store, ticks, last, pre, current_time, files, idx,
                   io, cycle, log, boot, writer, threads, cacheVars>>

NextEver ==
    \/ PassSetup
    \/ \E o \in Orders(DOMAIN store) : EverStart(o)
    \/ CycleFile(0)
    \/ \E o \in Orders(DOMAIN store) : CycleTemp(o, 0)
    \/ EverSleep

\* a step of the sweeper thread, seen as the move of its position
EverMove ==
    \/ spc = "start" /\ spc' = "loop" /\ idx' = 1
    \/ spc = "loop" /\ idx <= Len(files) /\ spc' = spc /\ idx' = idx + 1
    \/ spc = "loop" /\ idx > Len(files) /\ spc' = "sleep" /\ idx' = idx
    \/ spc = "sleep" /\ spc' = "start" /\ idx' = idx

SpecEver == Init /\ [][NextEver]_vars /\ WF_<<spc, idx>>(EverMove)

(***************************************************************************)
(* A persisted file under the sweeper: the save path writes                *)
(* speech_<timestamp>_<id>.mp3 (app.py:240), the user renames it through   *)
(* api_rename_file, and cleanup_old_files runs its two phases.  Every      *)
(* save happens at time 0, so that the age of every stored file since its  *)
(* creation is `now`, whatever names it went through.                      *)
(***************************************************************************)
SPEECH_PREFIX == <<"s", "p", "e", "e", "c", "h", "_">>
N_speech == SPEECH_PREFIX \o <<"a">> \o EXT_MP3
N_temp_b == TEMP_PREFIX \o <<"b">> \o EXT_MP3
\* the <filename> of the URL and the new_name of the JSON body
KeepUrlNames == {N_speech, N_b, N_temp_b}
KeepNewNames == {<<"b">>, TEMP_PREFIX \o <<"b">>}

KeepSave ==
    /\ now = 0
    /\ SaveFile(N_speech, <<1>>)

\* clock steps longer than the temp threshold
KeepDeltas == {d \in SweepDeltas : d > TEMP_MAX_AGE_SECONDS}

NextKeep ==
    \/ KeepSave
    \/ \E f \in KeepUrlNames, n \in KeepNewNames : ApiRenameBegin(Handler, f, n)
    \/ ApiRenameCheck(Handler)
    \/ ApiRenameCall(Handler)
    \/ \E o \in Orders(DOMAIN store) : SweepStart(o)
    \/ SweepFile
    \/ \E o \in Orders(DOMAIN store) : SweepTemp(o)
    \/ SweepSleep
    \/ \E d \in KeepDeltas : Tick(d)

SpecKeep == Init /\ [][NextKeep]_vars

(***************************************************************************)
(* LocalStorage called from two threads at once (request handlers, or a    *)
(* handler and the sweeper).  delete_file is os.path.exists followed by    *)
(* os.remove; list_files and cleanup_temp_files read the directory with    *)
(* os.listdir and then visit the names one by one, all inside one try.     *)
(* A thread's pc names the call it is in; after delete_file it stays       *)
(* "deleted" ("raised" if an exception left the call) with the value       *)
(* returned in `ret`.  In a thread that lists or cleans, `status` counts   *)
(* the files another thread removed during the call; in a thread that      *)
(* deletes, `status` 1 says that the call overlaps another delete_file     *)
(* call on the same stored name.  Handler is the thread that lists and     *)
(* cleans.  Files are saved, and the clock moves once, past the temp age    *)
(* limit, only while no call is in progress.                               *)
(***************************************************************************)
LocalIdle(t) == threads[t].pc \in {"rest", "deleted", "raised"}

InDelete(t) == threads[t].pc \in {"exists", "remove"}

\* the threads as a step of thread t leaves them: `removed` says that the
\* step removed a file
Bump(thr, t, removed) ==
    [u \in Threads |->
        IF u # t /\ removed /\ thr[u].pc \in {"listing", "cleaning"}
        THEN [thr[u] EXCEPT !.status = @ + 1]
        ELSE thr[u]]

LocalSetup ==
    /\ backend = "local"
    /\ \A t \in Threads : LocalIdle(t)
    /\ \/ \E f \in Names : SaveFile(f, <<1>>)
       \/ now = 0 /\ Tick(FILE_MAX_AGE_SECONDS)

\* delete_file(filename) is called
LocalDeleteBegin(t, filename) ==
    /\ backend = "local"
    /\ LocalIdle(t)
    /\ LET same == {u \in Threads \ {t} : InDelete(u) /\ threads[u].name = filename}
           overlap == same # {} /\ filename \in DOMAIN store
       IN  threads' = [u \in Threads |->
              IF u = t
              THEN [pc |-> "exists", name |-> filename, arg |-> << >>, ret |-> FALSE,
                    status |-> IF overlap THEN 1 ELSE 0]
              ELSE IF u \in same /\ overlap THEN [threads[u] EXCEPT !.status = 1]
              ELSE threads[u]]
    /\ UNCHANGED <<configVars, store, now, ticks, last, pre, sweepVars, io, cycle, log,
                   boot, writer, cacheVars>>

\* if os.path.exists(filepath): ... return False
LocalDeleteExists(t) ==
    /\ threads[t].pc = "exists"
    /\ IF threads[t].name \in DOMAIN store
       THEN /\ threads' = [threads EXCEPT ![t].pc = "remove"]
            /\ UNCHANGED <<last, pre>>
       ELSE /\ threads' = [threads EXCEPT ![t].pc = "deleted", ![t].ret = FALSE]
            /\ last' = Call("delete_file", threads[t].name, << >>, FALSE)
            /\ pre' = store
    /\ UNCHANGED <<configVars, store, now, ticks, sweepVars, io, cycle, log, boot,
                   writer, cacheVars>>

\* os.remove without the try around it: FileNotFoundError leaves the call
Mut_LocalStorage_remove_notry(st, filename) ==
    IF filename \in DOMAIN st THEN Ok(Remove(st, filename), TRUE, 0)
    ELSE Raise(st, 0)

\* os.remove(filepath); return True, inside try ... except: return False
LocalStorage_remove(st, filename) ==
    Catch(IF filename \in DOMAIN st THEN Ok(Remove(st, filename), TRUE, 0)
          ELSE Raise(st, 0),
          FALSE)

LocalDeleteRemove(t) ==
    /\ threads[t].pc = "remove"
    /\ LET r == LocalStorage_remove(store, threads[t].name)
           done == [threads EXCEPT ![t].pc = IF r.raised THEN "raised" ELSE "deleted",
                                   ![t].ret = r.ret]
       IN  /\ store' = r.st
           /\ threads' = Bump(done, t, r.ret)
           /\ last' = Call("delete_file", threads[t].name, << >>, r.ret)
           /\ pre' = store
    /\ UNCHANGED <<configVars, now, ticks, sweepVars, io, cycle, log, boot, writer,
                   cacheVars>>

\* list_files(exclude_prefix) up to os.listdir(self.base_dir): `arg` holds
\* the names still to visit, `files` the entries appended so far
LocalListBegin(t, exclude_prefix, order) ==
    /\ backend = "local"
    /\ LocalIdle(t)
    /\ threads' = [threads EXCEPT ![t] =
          [pc |-> "listing", name |-> exclude_prefix, arg |-> order, ret |-> FALSE,
           status |-> 0]]
    /\ files' = << >>
    /\ UNCHANGED <<configVars, store, now, ticks, last, pre, spc, current_time, idx, io,
                   cycle, log, boot, writer, cacheVars>>

\* one turn of the loop: os.path.getsize of a removed file raises, and the
\* except clause returns the entries appended so far, unsorted
LocalListStep(t) ==
    /\ threads[t].pc = "listing"
    /\ threads[t].arg # << >>
    /\ LET filename == Head(threads[t].arg)
           exclude_prefix == threads[t].name
       IN  IF (exclude_prefix # << >> /\ StartsWith(filename, exclude_prefix))
              \/ ~IsAudio(filename)
           THEN /\ threads' = [threads EXCEPT ![t].arg = Tail(@)]
                /\ UNCHANGED files
           ELSE IF filename \notin DOMAIN store
           THEN /\ threads' = [threads EXCEPT ![t] = Rest]
                /\ UNCHANGED files
           ELSE /\ threads' = [threads EXCEPT ![t].arg = Tail(@)]
                /\ files' = Append(files, [filename |-> filename,
                                           size |-> Len(store[filename].content),
                                           created |-> store[filename].created])
    /\ UNCHANGED <<configVars, store, now, ticks, last, pre, spc, current_time, idx, io,
                   cycle, log, boot, writer, cacheVars>>

\* files.sort(key=created, reverse=True); return files
LocalListEnd(t) ==
    /\ threads[t].pc = "listing"
    /\ threads[t].arg = << >>
    /\ threads' = [threads EXCEPT ![t] = Rest]
    /\ files' = SortDesc(files)
    /\ UNCHANGED <<configVars, store, now, ticks, last, pre, spc, current_time, idx, io,
                   cycle, log, boot, writer, cacheVars>>

\* cleanup_temp_files(300) up to os.listdir(self.base_dir); the clock does
\* not move during the call, current_time is `now`
LocalCleanBegin(t, order) ==
    /\ backend = "local"
    /\ LocalIdle(t)
    /\ threads' = [threads EXCEPT ![t] =
          [pc |-> "cleaning", name |-> << >>, arg |-> order, ret |-> FALSE,
           status |-> 0]]
    /\ UNCHANGED <<configVars, store, now, ticks, last, pre, sweepVars, io, cycle, log,
                   boot, writer, cacheVars>>

\* one turn of the loop: os.path.getctime of a removed file raises, and the
\* except clause ends the pass
LocalCleanStep(t) ==
    /\ threads[t].pc = "cleaning"
    /\ threads[t].arg # << >>
    /\ LET filename == Head(threads[t].arg)
       IN  IF ~StartsWith(filename, TEMP_PREFIX)
           THEN /\ threads' = [threads EXCEPT ![t].arg = Tail(@)]
                /\ UNCHANGED store
           ELSE IF filename \notin DOMAIN store
           THEN /\ threads' = [threads EXCEPT ![t] = Rest]
                /\ UNCHANGED store
           ELSE IF now - store[filename].created > TEMP_MAX_AGE_SECONDS
           THEN /\ store' = Remove(store, filename)
                /\ threads' = Bump([threads EXCEPT ![t].arg = Tail(@)], t, TRUE)
           ELSE /\ threads' = [threads EXCEPT ![t].arg = Tail(@)]
                /\ UNCHANGED store
    /\ UNCHANGED <<configVars, now, ticks, last, pre, sweepVars, io, cycle, log, boot,
                   writer, cacheVars>>

LocalCleanEnd(t) ==
    /\ threads[t].pc = "cleaning"
    /\ threads[t].arg = << >>
    /\ threads' = [threads EXCEPT ![t] = Rest]
    /\ UNCHANGED <<configVars, store, now, ticks, last, pre, sweepVars, io, cycle, log,
                   boot, writer, cacheVars>>

\* list_files() of the sweeper and list_files(exclude_prefix='temp_') of api_history
HistoryExcludes == {NoPrefix, TEMP_PREFIX}

NextLocalRace ==
    \/ LocalSetup
    \/ \E t \in Threads, f \in Names : LocalDeleteBegin(t, f)
    \/ \E t \in Threads : LocalDeleteExists(t)
    \/ \E t \in Threads : LocalDeleteRemove(t)
    \/ \E e \in HistoryExcludes, o \in Orders(DOMAIN store) : LocalListBegin(Handler, e, o)
    \/ LocalListStep(Handler)
    \/ LocalListEnd(Handler)
    \/ \E o \in Orders(DOMAIN store) : LocalCleanBegin(Handler, o)
    \/ LocalCleanStep(Handler)
    \/ LocalCleanEnd(Handler)

SpecLocalRace == Init /\ [][NextLocalRace]_vars

(***************************************************************************)
(* The long-retention phase (the listing and the loop of cleanup_old_files)*)
(* run MaxPasses times in succession: files are saved and the clock moves  *)
(* before the first pass only; request handlers may delete at any time.    *)
(* `cycle` counts the passes that have finished.                           *)
(***************************************************************************)
\* the loop is over: the phase is started again, or the run ends
PassDone ==
    /\ spc = "loop"
    /\ idx > Len(files)
    /\ cycle < MaxPasses
    /\ cycle' = cycle + 1
    /\ spc' = IF cycle + 1 < MaxPasses THEN "start" ELSE "done"
    /\ UNCHANGED <<configVars, store, now, ticks, last, pre, current_time, files, idx,
                   io, log, boot, writer, threads, cacheVars>>

NextTwice ==
    \/ PassSetup
    \/ \E o \in Orders(DOMAIN store) : SweepStart(o)
    \/ SweepFile
    \/ PassDone
    \/ \E f \in Names : DeleteFile(f)

SpecTwice == Init /\ [][NextTwice]_vars

(***************************************************************************)
(* Where a file name lives in the store, and what the store holds.         *)
(***************************************************************************)
Path(filename) ==
    IF backend = "local" THEN filename ELSE S3Storage_get_key(prefix, filename)

Stored(st, filename) == Path(filename) \in DOMAIN st

\* the entries list_files should report for exclude_prefix
Listable(st, exclude_prefix) ==
    {f \in Names : /\ Stored(st, f)
                   /\ IsAudio(f)
                   /\ ~(exclude_prefix # << >> /\ StartsWith(f, exclude_prefix))}

Indices(seq) == 1..Len(seq)

(***************************************************************************)
(* C1: when save_file(name, bytes) has returned True, get_file(name)       *)
(* returns exactly those bytes, also when the name held other content      *)
(* before the call, and it keeps returning them through every later call   *)
(* that does not name that file.                                           *)
(***************************************************************************)
SavedIsRead ==
    (last.op = "save_file" /\ last.ret = TRUE)
        => get_file(store, last.name) = last.arg

OtherNamesKeep ==
    \A f \in Names :
        (last'.name # f /\ last'.arg # f)
            => get_file(store', f) = get_file(store, f)

Thm_C1_SaveThenGet == []SavedIsRead /\ [][OtherNamesKeep]_vars

Wit_C1_Overwrite ==
    /\ last.op = "save_file"
    /\ last.ret = TRUE
    /\ Stored(pre, last.name)
    /\ get_file(pre, last.name) # last.arg

(***************************************************************************)
(* C2: after delete_file(name) has returned, file_exists(name) is False    *)
(* and get_file(name) is None, whether or not the name was stored.         *)
(***************************************************************************)
Thm_C2_DeleteThenAbsent ==
    last.op = "delete_file"
        => /\ file_exists(store, last.name) = FALSE
           /\ get_file(store, last.name) = None

Wit_C2_DeletedStored ==
    /\ last.op = "delete_file"
    /\ file_exists(pre, last.name)
    /\ Cardinality(DOMAIN store) >= 1

(***************************************************************************)
(* C3: delete_file(name) of a name that is not stored returns False and    *)
(* leaves the store unchanged, on the local and on the S3 backend; it      *)
(* returns True only if the name was stored before the call.               *)
(***************************************************************************)
Cex_C3_DeleteAbsentReturnsFalse ==
    last.op = "delete_file"
        => /\ ~Stored(pre, last.name) => (last.ret = FALSE /\ store = pre)
           /\ last.ret = TRUE => Stored(pre, last.name)

(***************************************************************************)
(* C4: rename_file(old, new) with old # new, old stored and new not stored *)
(* returns True; afterwards old does not exist, new holds the bytes old    *)
(* held, and no other stored name has changed.                             *)
(***************************************************************************)
RenameCase ==
    /\ last.op = "rename_file"
    /\ last.name # last.arg
    /\ Stored(pre, last.name)
    /\ ~Stored(pre, last.arg)

Thm_C4_Rename ==
    RenameCase
        => /\ last.ret = TRUE
           /\ file_exists(store, last.name) = FALSE
           /\ get_file(store, last.arg) = pre[Path(last.name)].content
           /\ \A f \in Names \ {last.name, last.arg} :
                 /\ Stored(store, f) <=> Stored(pre, f)
                 /\ Stored(pre, f) => store[Path(f)] = pre[Path(f)]
           /\ DOMAIN store = ((DOMAIN pre) \ {Path(last.name)}) \cup {Path(last.arg)}

Wit_C4_Rename ==
    /\ RenameCase
    /\ Cardinality(DOMAIN pre) >= 2

(***************************************************************************)
(* C5: rename_file(old, new) when old is not stored returns False and      *)
(* leaves the store as it was, new included.                               *)
(***************************************************************************)
Thm_C5_RenameAbsent ==
    (last.op = "rename_file" /\ ~Stored(pre, last.name))
        => (last.ret = FALSE /\ store = pre)

Wit_C5_RenameAbsentOntoStored ==
    /\ last.op = "rename_file"
    /\ ~Stored(pre, last.name)
    /\ Stored(pre, last.arg)

(***************************************************************************)
(* C6: list_files(exclude_prefix) returns only .mp3/.wav entries, none     *)
(* that starts with a non-empty exclude_prefix, and exactly one entry for  *)
(* each stored file that passes both filters.                              *)
(***************************************************************************)
ListOk(st, exclude_prefix, listed) ==
    /\ \A i \in Indices(listed) : IsAudio(listed[i].filename)
    /\ exclude_prefix # << >> =>
          \A i \in Indices(listed) : ~StartsWith(listed[i].filename, exclude_prefix)
    /\ \A f \in Listable(st, exclude_prefix) :
          Cardinality({i \in Indices(listed) : listed[i].filename = f}) = 1
    /\ Len(listed) = Cardinality(Listable(st, exclude_prefix))

Cex_C6_ListExact ==
    \A e \in ExcludePrefixes, o \in Orders(DOMAIN store) :
        ListOk(store, e, list_files(store, e, o))

(***************************************************************************)
(* C7: list_files is ordered by created, newest first: an entry with a     *)
(* larger created never comes after one with a smaller created.            *)
(***************************************************************************)
Thm_C7_ListSorted ==
    \A e \in ExcludePrefixes, o \in Orders(DOMAIN store) :
        LET listed == list_files(store, e, o)
        IN  \A i, j \in Indices(listed) :
               listed[i].created > listed[j].created => i < j

\* a listing of two files whose enumeration order is oldest first
Wit_C7_Reordered ==
    \E o \in Orders(DOMAIN store) :
        LET listed == list_files(store, NoPrefix, o)
        IN  /\ Len(listed) = 2
            /\ listed[1].created > listed[2].created
            /\ \E i, j \in Indices(o) :
                  /\ i < j
                  /\ RemoveAll(o[i], IF backend = "local" THEN << >> ELSE prefix)
                        = listed[2].filename
                  /\ RemoveAll(o[j], IF backend = "local" THEN << >> ELSE prefix)
                        = listed[1].filename

(***************************************************************************)
(* C8: when a sweep cycle has completed, no audio file exists whose age at *)
(* the start of the cycle exceeded FILE_MAX_AGE_SECONDS.                   *)
(***************************************************************************)
Created(st, filename) == st[Path(filename)].created

Cex_C8_CycleRemovesExpired ==
    spc = "sleep"
        => \A f \in Names :
              (Stored(store, f) /\ IsAudio(f))
                  => current_time - Created(store, f) <= FILE_MAX_AGE_SECONDS

(***************************************************************************)
(* C9: cleanup_temp_files(300) deletes every temp_ file older than 300     *)
(* seconds, keeps every temp_ file of age 300 or less, and deletes no file *)
(* whose name does not start with temp_.                                   *)
(***************************************************************************)
Cex_C9_TempCleanup ==
    last.op = "cleanup_temp_files"
        => \A f \in Names :
              Stored(pre, f) =>
                 IF StartsWith(f, TEMP_PREFIX)
                    /\ last.arg - Created(pre, f) > TEMP_MAX_AGE_SECONDS
                 THEN ~Stored(store, f)
                 ELSE Stored(store, f) /\ store[Path(f)] = pre[Path(f)]

(***************************************************************************)
(* C10: phase 1 of the cycle has no prefix filter: when its loop is over,  *)
(* before cleanup_temp_files runs, no temp_ audio file older than          *)
(* FILE_MAX_AGE_SECONDS at the start of the cycle is left.                 *)
(***************************************************************************)
Cex_C10_LongSweepCoversTemp ==
    (spc = "loop" /\ idx > Len(files))
        => \A f \in Names :
              (Stored(store, f) /\ IsAudio(f) /\ StartsWith(f, TEMP_PREFIX))
                  => current_time - Created(store, f) <= FILE_MAX_AGE_SECONDS

(***************************************************************************)
(* C11: when the long-retention phase is run again right after a pass,     *)
(* with no save, rename or clock advance in between, no step of the second *)
(* pass raises or changes the store: the store after the second pass is    *)
(* the store the first pass left.                                          *)
(***************************************************************************)
\* a step of the phase itself moves its position; a handler's delete does not
PassStep == <<spc, idx, cycle>>' # <<spc, idx, cycle>>

Thm_C11_SecondPassDeletesNothing ==
    [][(cycle >= 1 /\ PassStep) => store' = store]_vars

\* the second pass is over, the first pass deleted an expired file and left
\* a file that the second pass listed
Wit_C11_SecondPassDone ==
    /\ cycle = MaxPasses
    /\ Len(files) >= 1
    /\ last.op = "delete_file"
    /\ last.ret = TRUE
    /\ Stored(pre, last.name)
    /\ current_time - Created(pre, last.name) > FILE_MAX_AGE_SECONDS
    /\ ~Stored(store, last.name)

(***************************************************************************)
(* C15: save, get, delete, rename, list, exists and get_file_url of both   *)
(* backends let no exception out, whichever backend call of the operation  *)
(* fails, and a call that met a fault returns its failure value: False,    *)
(* None, or for list_files a list (of entries the store holds).            *)
(***************************************************************************)
InterfaceOps ==
    {"save_file", "get_file", "delete_file", "rename_file", "list_files",
     "file_exists", "get_file_url"}

FailureValue(op, ret) ==
    CASE op \in {"save_file", "delete_file", "rename_file", "file_exists"} -> ret = FALSE
      [] op = "get_file" -> ret = None
      [] op = "get_file_url" -> ret = NoUrl
      [] op = "list_files" ->
            \A i \in Indices(ret) :
                /\ Stored(pre, ret[i].filename)
                /\ ret[i].created = Created(pre, ret[i].filename)

Thm_C15_FaultIsFailureValue ==
    last.op \in InterfaceOps
        => /\ ~io.raised
           /\ io.fault # 0 => FailureValue(last.op, last.ret)

\* a rename whose delete_object failed after the copy: False is returned and
\* both names resolve
Wit_C15_FaultInSecondStep ==
    /\ last.op = "rename_file"
    /\ io.fault = 2
    /\ last.ret = FALSE
    /\ Stored(store, last.name)
    /\ Stored(store, last.arg)
    /\ ~Stored(pre, last.arg)

(***************************************************************************)
(* C14: on an S3Storage whose client construction failed, every call       *)
(* returns at once, with no s3_client call made and no exception:          *)
(* save_file, delete_file, rename_file and file_exists return False,       *)
(* get_file and get_file_url return None, list_files returns the empty     *)
(* list and cleanup_temp_files does nothing.                               *)
(***************************************************************************)
UninitializedValue(op, ret) ==
    CASE op \in {"save_file", "delete_file", "rename_file", "file_exists"} -> ret = FALSE
      [] op \in {"get_file", "cleanup_temp_files"} -> ret = None
      [] op = "get_file_url" -> ret = NoUrl
      [] op = "list_files" -> ret = << >>

Thm_C14_UninitializedFails ==
    (backend = "s3" /\ ~initialized /\ last.op # "init")
        => /\ io.calls = 0
           /\ ~io.raised
           /\ store = pre
           /\ UninitializedValue(last.op, last.ret)

Wit_C14_UninitializedCall ==
    /\ backend = "s3"
    /\ ~initialized
    /\ last.op = "rename_file"
    /\ last.name # last.arg
    /\ io.fault = 0

(***************************************************************************)
(* C12: a sweep cycle that fails does not end the sweeper: an exception    *)
(* raised by a step of the cycle is caught, the loop sleeps for the        *)
(* interval and begins a further cycle.                                    *)
(***************************************************************************)
Thm_C12_SweeperGoesOn ==
    \A c \in 1..(MaxCycles - 1) :
        (spc = "except" /\ cycle = c) ~> (spc = "loop" /\ cycle = c + 1)

\* a further cycle runs after a cycle that raised
Wit_C12_CycleAfterRaise ==
    /\ cycle = MaxCycles
    /\ spc = "loop"
    /\ log.raisedBefore
    /\ current_time >= SWEEP_INTERVAL
    /\ Len(files) >= 1

(***************************************************************************)
(* C19: get_storage_backend never raises, and what it returns is decided   *)
(* by the configuration: the local backend unless STORAGE_TYPE is s3 (in   *)
(* any case) and S3_BUCKET_NAME is set; otherwise an S3 backend, which is  *)
(* initialized exactly when client construction succeeded.                 *)
(***************************************************************************)
WantsS3(env) ==
    /\ env.STORAGE_TYPE \in {TYPE_S3, <<"S", "3">>}
    /\ env.S3_BUCKET_NAME = <<"b">>

Cex_C19_SelectionNeverRaises ==
    last.op = "get_storage_backend"
        => /\ ~last.ret.raised
           /\ last.ret.kind = IF WantsS3(last.name) THEN "s3" ELSE "local"
           /\ WantsS3(last.name) => (last.ret.initialized <=> last.name.client_ok)

(***************************************************************************)
(* C13: however often the routes module is imported and create_app is      *)
(* called, at most one sweeper thread runs in the process, and once either *)
(* has been invoked exactly one runs.                                      *)
(***************************************************************************)
Cex_C13_OneSweeper ==
    /\ boot.sweepers <= 1
    /\ boot.invoked => boot.sweepers = 1

(***************************************************************************)
(* C16: on the local backend, right after save_file(name, bytes) returned  *)
(* True for a name ending in .mp3 or .wav, file_exists(name) is True,      *)
(* get_file(name) returns bytes and list_files() has an entry with that    *)
(* filename, whatever order the directory is read in.                      *)
(***************************************************************************)
Listed(listing, filename) == \E i \in 1..Len(listing) : listing[i].filename = filename

Thm_C16_SavedIsVisible ==
    (backend = "local" /\ last.op = "save_file" /\ last.ret = TRUE /\ IsAudio(last.name))
        => /\ file_exists(store, last.name) = TRUE
           /\ get_file(store, last.name) = last.arg
           /\ \A o \in Orders(DOMAIN store) :
                  Listed(list_files(store, NoPrefix, o), last.name)

\* a save that succeeded after one that failed half-way on the same name
Wit_C16_SavedAfterFailure ==
    /\ backend = "local"
    /\ last.op = "save_file"
    /\ last.ret = TRUE
    /\ last.name = N_temp_audio
    /\ Stored(pre, N_temp_audio)
    /\ pre[N_temp_audio].content = << >>
    /\ Cardinality(DOMAIN store) >= 2
    /\ Listed(list_files(store, NoPrefix, CHOOSE o \in Orders(DOMAIN store) : TRUE),
              N_temp_audio)

(***************************************************************************)
(* C17: get_file(name) returns None or the complete bytes of one save_file *)
(* call made for that name, also while a save_file of the name is running  *)
(* in another thread.                                                      *)
(***************************************************************************)
Cex_C17_NoPartialRead ==
    last.op = "get_file"
        => \/ last.ret = None
           \/ <<last.name, last.ret>> \in writer.saved

(***************************************************************************)
(* C18: the history listing (api_history) never contains a file whose name *)
(* starts with temp_, in any state of the store: no entry has such a       *)
(* filename and no stored temp_ file has an entry; the sweeper's listing   *)
(* has an entry for every stored temp_ audio file.                         *)
(***************************************************************************)
\* the listing has the entry made from the stored file `filename`
Shown(listing, filename) ==
    \E i \in 1..Len(listing) :
        /\ listing[i].filename =
               IF backend = "local" THEN filename ELSE RemoveAll(Path(filename), prefix)
        /\ listing[i].created = Created(store, filename)
        /\ listing[i].size = Len(store[Path(filename)].content)

TempFiles == {f \in Names : StartsWith(f, TEMP_PREFIX) /\ Stored(store, f)}

Cex_C18_HistoryHidesTemp ==
    \A o \in Orders(DOMAIN store) :
        LET history == api_history(store, now, o)
            sweep == list_files(store, NoPrefix, o)
        IN  /\ \A i \in 1..Len(history) : ~StartsWith(history[i].filename, TEMP_PREFIX)
            /\ \A f \in TempFiles : ~Shown(history, f)
            /\ \A f \in TempFiles : IsAudio(f) => Listed(sweep, f)

(***************************************************************************)
(* C20: a delete_file that fails for an expired file does not stop the     *)
(* cycle: every expired entry of the listing the loop has passed was       *)
(* handed to delete_file, a cycle that ends without an exception has       *)
(* called cleanup_temp_files, and the failed deletion leaves the store as  *)
(* it was.  As claimed, every entry whose deletion failed is in the next   *)
(* cycle's listing (when that listing succeeds) and still expired, so that *)
(* the loop hands it to delete_file again.  In the code this holds for the *)
(* entries that are not temp_ files or are still stored: a temp_ file      *)
(* whose deletion failed in the loop is deleted by cleanup_temp_files of   *)
(* the same cycle when that call succeeds.                                 *)
(***************************************************************************)
ExpiredEntry(file) == current_time - file.created > FILE_MAX_AGE_SECONDS

InListing(file) == \E i \in 1..Len(files) : files[i] = file

CycleGoesOn ==
    /\ spc = "loop" =>
          \A i \in 1..(idx - 1) : ExpiredEntry(files[i]) => files[i] \in log.attempted
    /\ (spc = "sleep" /\ ~log.raised) => log.temp
    /\ (spc = "loop" /\ idx > 1 /\ io.fault # 0 /\ files[idx - 1] \in log.failed)
          => store = pre
    /\ (spc = "loop" /\ idx > Len(files))
          => \A file \in log.retry : InListing(file) => file \in log.attempted

\* the listing of the cycle has just been made, and did not fail
Relisted(file) == (spc = "loop" /\ idx = 1 /\ io.fault = 0) => (InListing(file) /\ ExpiredEntry(file))

Cex_C20_FailedDeleteRetried ==
    /\ CycleGoesOn
    /\ \A file \in log.retry : Relisted(file)

Thm_C20_FailedDeleteIsSkipped ==
    /\ CycleGoesOn
    /\ \A file \in log.retry :
          (~StartsWith(file.filename, TEMP_PREFIX) \/ Stored(store, file.filename))
              => Relisted(file)

\* the second cycle is over: a deletion failed in the first cycle, and the
\* entry was handed to delete_file again in the second, which deleted the file
Wit_C20_RetriedNextCycle ==
    /\ cycle = MaxCycles
    /\ spc = "sleep"
    /\ log.temp
    /\ log.retry # {}
    /\ log.retry \subseteq log.attempted
    /\ \E file \in log.retry :
          ~StartsWith(file.filename, TEMP_PREFIX) /\ ~Stored(store, file.filename)

(***************************************************************************)
(* C21: rename_file(old, new) with old and new both stored, with different *)
(* content, returns True and overwrites: afterwards old does not exist and *)
(* get_file(new) returns the bytes old held, on both backends.             *)
(***************************************************************************)
OverwriteCase ==
    /\ last.op = "rename_file"
    /\ last.name # last.arg
    /\ Stored(pre, last.name)
    /\ Stored(pre, last.arg)
    /\ pre[Path(last.name)].content # pre[Path(last.arg)].content

Thm_C21_RenameOverwrites ==
    OverwriteCase
        => /\ last.ret = TRUE
           /\ file_exists(store, last.name) = FALSE
           /\ get_file(store, last.arg) = pre[Path(last.name)].content
           /\ get_file(store, last.arg) # pre[Path(last.arg)].content

Wit_C21_Overwritten ==
    /\ OverwriteCase
    /\ backend = "local"
    /\ last.ret = TRUE
    /\ Cardinality(DOMAIN store) = Cardinality(DOMAIN pre) - 1

(***************************************************************************)
(* C22: api_rename_file never overwrites a file of another name: whenever  *)
(* the handler's rename_file call is executed, no file named new_filename  *)
(* (different from the source name) is stored, whatever other requests run *)
(* concurrently.                                                           *)
(***************************************************************************)
Cex_C22_HandlerNeverOverwrites ==
    last.op = "rename_file" => ~(last.arg # last.name /\ Stored(pre, last.arg))

(***************************************************************************)
(* C23: on the S3 backend, a rename_file whose copy succeeded and whose    *)
(* delete of the old key failed returns False, undoes nothing and leaves   *)
(* old and new stored with the same content (old as it was, nothing else   *)
(* touched); a rename_file whose copy failed returns False and leaves the  *)
(* store unchanged.                                                        *)
(***************************************************************************)
S3RenameFault(fault) ==
    /\ backend = "s3"
    /\ initialized
    /\ last.op = "rename_file"
    /\ io.fault = fault
    /\ io.calls = fault

Thm_C23_HalfDoneRename ==
    /\ S3RenameFault(2) =>
          /\ last.ret = FALSE
          /\ Stored(store, last.name)
          /\ Stored(store, last.arg)
          /\ store[Path(last.arg)].content = store[Path(last.name)].content
          /\ store[Path(last.name)] = pre[Path(last.name)]
          /\ DOMAIN store = DOMAIN pre \cup {Path(last.arg)}
          /\ \A k \in DOMAIN pre \ {Path(last.arg)} : store[k] = pre[k]
    /\ S3RenameFault(1) => (last.ret = FALSE /\ store = pre)

\* the copy replaced a file of other content before the delete failed
Wit_C23_CopiedNotDeleted ==
    /\ S3RenameFault(2)
    /\ Stored(pre, last.arg)
    /\ pre[Path(last.arg)].content # pre[Path(last.name)].content
    /\ store # pre

(***************************************************************************)
(* C24: on the S3 backend, when rename_file(old, new) and delete_file(old) *)
(* overlapped and both have returned, new is stored (with old absent or    *)
(* present): the store never ends with both old and new absent.  In the    *)
(* code old is absent afterwards, and new holds the bytes of old exactly   *)
(* when the copy came before the delete (rename_file returned True);       *)
(* otherwise rename_file returned False and the store is the store before  *)
(* without old, where new is absent unless it was stored already.          *)
(***************************************************************************)
RaceOver(r, d) ==
    /\ threads[r].pc = "renamed"
    /\ threads[d].pc = "deleted"
    /\ threads[r].status + threads[d].status = 1
    /\ threads[r].name = threads[d].name
    /\ threads[r].name # threads[r].arg
    /\ Stored(pre, threads[r].name)

Cex_C24_RenameDeleteRace ==
    \A r, d \in Threads : RaceOver(r, d) => Stored(store, threads[r].arg)

Thm_C24_RenameDeleteOutcomes ==
    \A r, d \in Threads :
        RaceOver(r, d) =>
            LET old_key == Path(threads[r].name)
                new_key == Path(threads[r].arg)
            IN  /\ ~Stored(store, threads[r].name)
                /\ threads[d].ret = TRUE
                /\ threads[r].ret = TRUE =>
                      /\ Stored(store, threads[r].arg)
                      /\ store[new_key].content = pre[old_key].content
                      /\ DOMAIN store = (DOMAIN pre \ {old_key}) \cup {new_key}
                /\ threads[r].ret = FALSE => store = Remove(pre, old_key)

\* the delete came first: the copy found no source, and both names are absent
Wit_C24_BothAbsent ==
    \E r, d \in Threads :
        /\ RaceOver(r, d)
        /\ threads[r].ret = FALSE
        /\ ~Stored(store, threads[r].name)
        /\ ~Stored(store, threads[r].arg)
        /\ store # EmptyStore

(***************************************************************************)
(* C25: SimpleLRUCache is bounded and thread-safe: whenever no call is     *)
(* inside the lock the cache has at most `capacity` entries (one more      *)
(* only inside set, before its eviction); at most one thread is inside a   *)
(* get, set or clear at a time, and it holds the lock; a get that has      *)
(* returned gave None or a value some set call stored for that key.        *)
(***************************************************************************)
Inside(t) == threads[t].pc # "rest"

Thm_C25_BoundedAndAtomic ==
    /\ Len(TRANSCRIPT_CACHE.cache) <= TRANSCRIPT_CACHE.capacity + 1
    /\ TRANSCRIPT_CACHE.lock = 0 =>
          /\ Len(TRANSCRIPT_CACHE.cache) <= TRANSCRIPT_CACHE.capacity
          /\ \A t \in Threads : ~Inside(t)
    /\ \A t, u \in Threads : (Inside(t) /\ Inside(u)) => t = u
    /\ \A t \in Threads : Inside(t) => TRANSCRIPT_CACHE.lock = t
    /\ \A t \in Threads :
          (threads[t].pc = "rest" /\ threads[t].name # << >> /\ threads[t].arg = << >>)
              => \/ threads[t].ret = None
                 \/ <<threads[t].name, threads[t].ret>> \in sets
    /\ \A i, j \in 1..Len(TRANSCRIPT_CACHE.cache) :
          TRANSCRIPT_CACHE.cache[i].key = TRANSCRIPT_CACHE.cache[j].key => i = j

\* a full cache, a set in progress in one thread and a get that hit before
Wit_C25_FullCacheUnderLock ==
    /\ TRANSCRIPT_CACHE.capacity = 2
    /\ Len(TRANSCRIPT_CACHE.cache) = 3
    /\ threads[1].pc = "assigned"
    /\ threads[2].pc = "rest"
    /\ threads[2].name # << >>
    /\ threads[2].arg = << >>
    /\ threads[2].ret = <<2, 3>>

(***************************************************************************)
(* C26: SimpleLRUCache evicts in least-recently-used order.  The step of   *)
(* set that follows the assignment removes exactly one entry when the      *)
(* cache exceeds its capacity, the one whose latest get-hit or set is the  *)
(* oldest, and nothing otherwise; set of a cached key replaces its value   *)
(* and removes nothing, set of a new key adds it; get of a missing key     *)
(* returns None and changes nothing, a get-hit returns the value and       *)
(* leaves keys and values alone.                                           *)
(***************************************************************************)
Cached == TRANSCRIPT_CACHE.cache

LRUKey == Head(SelectSeq(recency, LAMBDA k : k \in KeysOf(Cached)))

SameValues(keys) ==
    \A k \in keys : ValueOf(TRANSCRIPT_CACHE'.cache, k) = ValueOf(Cached, k)

EvictStep(t) ==
    /\ threads[t].pc = "assigned"
    /\ threads'[t].pc = "rest"
    /\ IF Len(Cached) > TRANSCRIPT_CACHE.capacity
       THEN /\ Len(TRANSCRIPT_CACHE'.cache) = Len(Cached) - 1
            /\ KeysOf(TRANSCRIPT_CACHE'.cache) = KeysOf(Cached) \ {LRUKey}
            /\ SameValues(KeysOf(Cached) \ {LRUKey})
            /\ LRUKey # threads[t].name
       ELSE TRANSCRIPT_CACHE'.cache = Cached

AssignStep(t) ==
    /\ threads[t].pc = "set"
    /\ threads'[t].pc = "assigned"
    /\ ValueOf(TRANSCRIPT_CACHE'.cache, threads[t].name) = threads[t].arg
    /\ SameValues(KeysOf(Cached) \ {threads[t].name})
    /\ KeysOf(TRANSCRIPT_CACHE'.cache) = KeysOf(Cached) \cup {threads[t].name}
    /\ IF threads[t].name \in KeysOf(Cached)
       THEN /\ Len(TRANSCRIPT_CACHE'.cache) = Len(Cached)
            /\ Len(TRANSCRIPT_CACHE'.cache) <= TRANSCRIPT_CACHE.capacity
       ELSE Len(TRANSCRIPT_CACHE'.cache) = Len(Cached) + 1

GetStep(t) ==
    /\ threads[t].pc = "get"
    /\ threads'[t].pc = "rest"
    /\ KeysOf(TRANSCRIPT_CACHE'.cache) = KeysOf(Cached)
    /\ SameValues(KeysOf(Cached))
    /\ IF threads[t].name \in KeysOf(Cached)
       THEN threads'[t].ret = ValueOf(Cached, threads[t].name)
       ELSE /\ threads'[t].ret = None
            /\ TRANSCRIPT_CACHE'.cache = Cached
            /\ recency' = recency

Thm_C26_EvictsLeastRecentlyUsed ==
    [][\A t \in Threads :
          /\ (threads[t].pc = "assigned" /\ threads'[t].pc = "rest") => EvictStep(t)
          /\ (threads[t].pc = "set" /\ threads'[t].pc = "assigned") => AssignStep(t)
          /\ (threads[t].pc = "get" /\ threads'[t].pc = "rest") => GetStep(t)]_vars

\* a set has evicted the key used longest ago, which is not the key that was
\* stored first: that one is the oldest entry left, refreshed by a get
Wit_C26_EvictedAfterRefresh ==
    /\ TRANSCRIPT_CACHE.capacity = 2
    /\ TRANSCRIPT_CACHE.lock = 0
    /\ Len(Cached) = 2
    /\ Len(recency) = 3
    /\ Head(recency) \notin KeysOf(Cached)
    /\ threads[1].pc = "rest"
    /\ threads[1].arg # << >>
    /\ threads[1].name = Cached[2].key
    /\ threads[2].pc = "rest"
    /\ threads[2].arg = << >>
    /\ threads[2].name = Cached[1].key
    /\ threads[2].ret # None
    /\ Cardinality(sets) = 3

(***************************************************************************)
(* C27: with a fairly scheduled sweeper and a backend whose calls succeed, *)
(* every stored audio file that is not saved again is removed from the     *)
(* store in the end.                                                       *)
(***************************************************************************)
AudioNames == {f \in Names : IsAudio(f)}

Cex_C27_EveryFileGoes ==
    \A f \in AudioNames : Stored(store, f) ~> ~Stored(store, f)

(***************************************************************************)
(* C28: no phase of the sweeper deletes a file that the save path created  *)
(* (and the user possibly renamed) while the file's age since its creation *)
(* is at most FILE_MAX_AGE_SECONDS.  Under SpecKeep every file was created *)
(* at time 0, so that this age is `now`.                                   *)
(***************************************************************************)
\* a step of the sweeper thread inside a cycle: a loop turn or the temp phase
SweepPhaseStep == spc = "loop" /\ (idx' # idx \/ spc' # spc)

Cex_C28_NoEarlyDelete ==
    [][(SweepPhaseStep /\ now <= FILE_MAX_AGE_SECONDS)
         => DOMAIN store \subseteq DOMAIN store']_vars

(***************************************************************************)
(* C29: on the local backend, a list_files call during which another       *)
(* caller deleted one file returns, newest first, an entry for every audio *)
(* file (outside the excluded prefix) that was stored throughout the call, *)
(* and a cleanup_temp_files pass during which another caller deleted one   *)
(* file leaves no other expired temp file behind.  No file is saved during *)
(* a call, so that the files stored when the call returns were stored      *)
(* throughout.                                                             *)
(***************************************************************************)
ListReturn == threads[Handler].pc = "listing" /\ threads'[Handler].pc = "rest"

CleanReturn == threads[Handler].pc = "cleaning" /\ threads'[Handler].pc = "rest"

\* one file was removed by another caller during the call
OneRemoved == threads[Handler].status = 1

ListComplete ==
    LET ret == files'
        exclude_prefix == threads[Handler].name
    IN  /\ \A i, j \in 1..Len(ret) : ret[i].created > ret[j].created => i < j
        /\ \A f \in DOMAIN store :
              (IsAudio(f) /\ ~(exclude_prefix # << >> /\ StartsWith(f, exclude_prefix)))
                 => \E i \in 1..Len(ret) : ret[i].filename = f

CleanComplete ==
    \A f \in DOMAIN store' :
       ~(StartsWith(f, TEMP_PREFIX) /\ now - store'[f].created > TEMP_MAX_AGE_SECONDS)

Cex_C29_OthersStillProcessed ==
    [][/\ (ListReturn /\ OneRemoved) => ListComplete
       /\ (CleanReturn /\ OneRemoved) => CleanComplete]_vars

(***************************************************************************)
(* C30: on the local backend, when two delete_file calls on the same       *)
(* stored name overlap, neither raises, exactly one returns True and the   *)
(* other False, and the file is absent once both have returned.            *)
(***************************************************************************)
\* t and u made overlapping delete_file calls on one stored name, both have
\* returned, and no storage call was made since
BothDeleted(t, u) ==
    /\ t # u
    /\ threads[t].pc \in {"deleted", "raised"}
    /\ threads[u].pc \in {"deleted", "raised"}
    /\ threads[t].status = 1
    /\ threads[u].status = 1
    /\ threads[t].name = threads[u].name
    /\ last.op = "delete_file"
    /\ last.name = threads[t].name

Thm_C30_ConcurrentDeletes ==
    \A t, u \in Threads :
       BothDeleted(t, u) =>
          /\ threads[t].pc = "deleted"
          /\ threads[u].pc = "deleted"
          /\ threads[t].ret # threads[u].ret
          /\ threads[t].name \notin DOMAIN store

\* both calls have returned, the second of them with False
Wit_C30_OneTrueOneFalse ==
    \E t, u \in Threads :
       /\ BothDeleted(t, u)
       /\ threads[t].ret = TRUE
       /\ threads[u].ret = FALSE
       /\ last.ret = FALSE

====
